---- MODULE Spec2Model ----
(***************************************************************************)
(* Conversation persistence (ConversationService over CosmosDBService and  *)
(* the in-process fallback map) and the run reconciler of AIFoundryService.*)
(*                                                                         *)
(* Modelling decisions:                                                    *)
(*  - main.py builds ConversationService(cosmos_service) with a store whose*)
(*    initialize() has already succeeded, or with None; initialize() is    *)
(*    therefore a no-op in every later call.                               *)
(*  - every Cosmos call of a handler may raise an infrastructure error;    *)
(*    the parameter "fault" of a handler names the call that raises.       *)
(*  - uuid4 session ids are drawn from a small set and may collide;        *)
(*    message ids are taken to be fresh.                                   *)
(*  - datetime.utcnow() reads "clock"; Tick lets time pass, so two reads   *)
(*    may return the same instant.                                         *)
(*  - ORDER BY leaves the order of equal keys to the store: any order.     *)
(*  - lastActiveAt / updated_at are not modelled: a listing, which the    *)
(*    code sorts by them, may come in any order.                           *)
(*  - agent_id filters, tenantId, tokens, toolCalls, vector, grounding and *)
(*    session_data are not modelled.                                       *)
(*  - the remote agent service moves a run through its statuses on its own;*)
(*    besides the statuses the code names, a run being cancelled has the   *)
(*    status "cancelling" (comment in send_message).                       *)
(*  - the reconciler's elapsed time is counted in poll intervals of 0.5 s. *)
(***************************************************************************)
EXTENDS Integers, Sequences, FiniteSets, TLC

\* ---------------------------------------------------------------- bounds
MaxClock == 1
MaxMsgs == 1
MaxGen == 2
MaxSessions == 2
MaxSeqSessions == 1
MaxSeqMsgs == 2
MaxTokenCalls == 2
MaxReplay == 2
MaxThreadMessages == 3
MaxAgentCalls == 2

\* ------------------------------------------------------------ input sets
None == "None"
Users == {"u1", "u2"}
DurIds == {"sess_a", "sess_b"}
MemIds == {"conv_a"}
Roles == {"user", "assistant"}
Contents == {"Hello"}
Titles == {None}
Attachments == {<<>>}
DefaultLimit == 50
Limits == {1, DefaultLimit}
RunIds == {"run_1", "run_2"}
NoRun == "no_run"

VARIABLES
    cosmos_service,       \* TRUE: the facade holds a CosmosDBService; FALSE: None
    sessions_container,   \* Sessions container: set of session documents
    messages_container,   \* Messages container: documents in insertion order
    in_memory_store,      \* the facade's dict, as its values in insertion order
    clock,                \* what datetime.utcnow() returns
    every_call_failed,    \* history: no Cosmos call has succeeded so far
    last,                 \* history: the last facade call and what it returned
    thread_runs,          \* the remote thread: run id -> status, NoRun if none
    pc,                   \* where _ensure_no_active_runs stands
    runs_list,            \* its first listing of the thread's runs
    active_runs,          \* the runs its cancel loop still has to visit
    elapsed,              \* its elapsed time, in poll intervals
    cancel_requests,      \* history: the runs it has asked to cancel
    msal_app,             \* which ConfidentialClientApplication the service holds
    token_pc,             \* where _get_azure_ai_token stands
    responses,            \* what the exchange does on attempts 1, 2, 3 of this call
    attempt,              \* the loop variable of _get_azure_ai_token
    last_exception,       \* its local last_exception
    token_result,         \* the token it returned or the exception it raised
    sleeps,               \* history: its backoff sleeps, in units of 0.5 s
    token_calls,          \* history: the calls of _get_azure_ai_token so far
    store_tasks,          \* concurrent CosmosDBService calls: where each stands, its locals
    thread_messages,      \* the remote thread: the messages posted to it, in order
    open_clients,         \* the backend clients created and not closed
    send_calls,           \* send_message calls: where each stands, its history
    agent_last            \* history: the last AIFoundryService call that ended

store_vars == <<cosmos_service, sessions_container, messages_container,
                in_memory_store, clock, every_call_failed, last>>

run_vars == <<thread_runs, pc, runs_list, active_runs, elapsed, cancel_requests>>

token_vars == <<msal_app, token_pc, responses, attempt, last_exception,
                token_result, sleeps, token_calls>>

task_vars == <<store_tasks>>

agent_vars == <<thread_messages, open_clients, send_calls, agent_last>>

vars == <<store_vars, run_vars, token_vars, task_vars, agent_vars>>

\* ---------------------------------------------------------------- helpers
Min(a, b) == IF a < b THEN a ELSE b

Range(q) == {q[i] : i \in 1..Len(q)}

\* the sequences that list every element of S once
RECURSIVE Perms(_)
Perms(S) ==
    IF S = {} THEN {<<>>}
    ELSE UNION {{<<x>> \o p : p \in Perms(S \ {x})} : x \in S}

\* str[:n]
Prefix(str, n) == SubSeq(str, 1, Min(n, Len(str)))

MsgId(n) == "msg_" \o ToString(n)

PLACEHOLDER_TITLES == {"New Conversation", "New Chat"}

\* ------------------------------------------------- CosmosDBService (store)
\* ChatSession document written by create_session
ChatSession(id, user_id, title) ==
    [id |-> id, userId |-> user_id,
     title |-> IF title = None THEN "New Conversation" ELSE title,
     is_active |-> TRUE]

\* ChatMessage document written by add_message_to_session and by the fallback
ChatMessage(id, session_id, role, content, now, attachments) ==
    [id |-> id, sessionId |-> session_id, role |-> role, content |-> content,
     createdAt |-> now,
     attachments |-> IF attachments = None THEN <<>> ELSE attachments,
     feedback |-> None]

\* sessions_container.read_item(item=id, partition_key=user_id)
HasItem(sessions, id, user_id) ==
    \E s \in sessions : s.id = id /\ s.userId = user_id

read_item(sessions, id, user_id) ==
    CHOOSE s \in sessions : s.id = id /\ s.userId = user_id

\* sessions_container.replace_item(item=id, body=doc)
replace_item(sessions, doc) ==
    {s \in sessions : ~(s.id = doc.id /\ s.userId = doc.userId)} \cup {doc}

\* create_session: gen is the sequence of ids uuid4 yields, one per attempt;
\* an id already present in the user's partition raises
\* CosmosResourceExistsError and the call recurses with the next id.
\* fault "create_item": the insert of the last attempt raises.
\* status "pending": gen ends before the call does (not a complete call).
RECURSIVE create_session(_, _, _, _, _)
create_session(sessions, user_id, title, gen, fault) ==
    LET session == ChatSession(Head(gen), user_id, title) IN
    IF Len(gen) = 0
    THEN [status |-> "pending", sessions |-> sessions, session |-> ChatSession(None, user_id, title)]
    ELSE IF fault = "create_item" /\ Len(gen) = 1
    THEN [status |-> "raised", sessions |-> sessions, session |-> session]
    ELSE IF HasItem(sessions, session.id, user_id)
    THEN create_session(sessions, user_id, title, Tail(gen), fault)
    ELSE IF Len(gen) = 1
    THEN [status |-> "created", sessions |-> sessions \cup {session}, session |-> session]
    ELSE [status |-> "pending", sessions |-> sessions, session |-> session]

\* SELECT VALUE COUNT(1) FROM c WHERE c.sessionId = @session_id
get_message_count(messages, session_id, fault) ==
    IF fault = "aggregates" THEN 0
    ELSE Len(SelectSeq(messages, LAMBDA m : m.sessionId = session_id))

\* SELECT TOP 1 c.content ... ORDER BY c.createdAt DESC, cut to 100 characters:
\* the set of values the query may yield (any message of the latest instant)
get_last_message(messages, session_id, fault) ==
    LET mine == {m \in Range(messages) : m.sessionId = session_id}
        latest == {m \in mine : \A o \in mine : o.createdAt <= m.createdAt}
    IN IF fault = "aggregates" \/ mine = {} THEN {None}
       ELSE {Prefix(m.content, 100) : m \in latest}

ConversationSummary(id, title, last_message, message_count, is_active) ==
    [id |-> id, title |-> title, last_message |-> last_message,
     message_count |-> message_count, is_active |-> is_active]

\* variant: the query without "AND s.is_active = true"
query_sessions_any(sessions, user_id, limit) ==
    LET rows == {s \in sessions : s.userId = user_id}
    IN {SubSeq(q, 1, Min(limit, Len(q))) : q \in Perms(rows)}

\* the active sessions of the user's partition, ORDER BY lastActiveAt DESC,
\* OFFSET 0 LIMIT @limit: the set of row sequences the query may yield
\* (lastActiveAt is not modelled: the rows in any order)
query_sessions(sessions, user_id, limit) ==
    LET rows == {s \in sessions : s.userId = user_id /\ s.is_active}
    IN {SubSeq(q, 1, Min(limit, Len(q))) : q \in Perms(rows)}

\* the summaries get_user_conversations may build for one row of the query
summaries_of(messages, row, fault) ==
    {ConversationSummary(row.id, row.title, lm,
                         get_message_count(messages, row.id, fault),
                         row.is_active) :
       lm \in get_last_message(messages, row.id, fault)}

\* one summary per row, in the order of the rows
RECURSIVE summary_lists(_, _, _)
summary_lists(messages, q, fault) ==
    IF q = <<>> THEN {<<>>}
    ELSE {<<h>> \o t : h \in summaries_of(messages, Head(q), fault),
                       t \in summary_lists(messages, Tail(q), fault)}

\* CosmosDBService.get_user_conversations: the set of lists it may return;
\* an error of the session query is caught inside and yields []
cosmos_get_user_conversations(sessions, messages, user_id, limit, fault) ==
    IF fault = "query" THEN {<<>>}
    ELSE UNION {summary_lists(messages, q, fault) :
                  q \in query_sessions(sessions, user_id, limit)}

\* get_session_messages: SELECT * ... ORDER BY c.createdAt ASC: the set of
\* lists the query may yield
get_session_messages(messages, session_id, fault) ==
    LET mine == {m \in Range(messages) : m.sessionId = session_id}
    IN IF fault = "messages_query" THEN {<<>>}
       ELSE {q \in Perms(mine) :
               \A i, j \in 1..Len(q) : i < j => q[i].createdAt <= q[j].createdAt}

ChatConversation(id, user_id, title, msgs, is_active) ==
    [id |-> id, user_id |-> user_id, title |-> title, messages |-> msgs,
     is_active |-> is_active]

NoConversation == ChatConversation(None, None, None, <<>>, FALSE)

\* variant: a fetch that treats a soft-deleted session as missing
cosmos_get_conversation_active(sessions, messages, session_id, user_id, fault) ==
    IF fault = "read_item" \/ ~HasItem(sessions, session_id, user_id)
       \/ ~read_item(sessions, session_id, user_id).is_active
    THEN {NoConversation}
    ELSE LET session_item == read_item(sessions, session_id, user_id)
         IN {ChatConversation(session_item.id, user_id, session_item.title, msgs,
                              session_item.is_active) :
               msgs \in get_session_messages(messages, session_id, fault)}

\* CosmosDBService.get_conversation: the set of results (NoConversation: None)
cosmos_get_conversation(sessions, messages, session_id, user_id, fault) ==
    IF fault = "read_item" \/ ~HasItem(sessions, session_id, user_id)
    THEN {NoConversation}
    ELSE LET session_item == read_item(sessions, session_id, user_id)
         IN {ChatConversation(session_item.id, user_id, session_item.title, msgs,
                              session_item.is_active) :
               msgs \in get_session_messages(messages, session_id, fault)}

\* _update_session_activity: derive the title from the first user message
\* while the title is a placeholder (and bump lastActiveAt); every error is
\* swallowed (fault "activity": the read or the replace raises)
update_session_activity(sessions, session_id, user_id, content, role, fault) ==
    IF fault = "activity" \/ ~HasItem(sessions, session_id, user_id) THEN sessions
    ELSE LET session_item == read_item(sessions, session_id, user_id)
             title == IF role = "user" /\ session_item.title \in PLACEHOLDER_TITLES
                      THEN Prefix(content, 50) \o (IF Len(content) > 50 THEN "..." ELSE "")
                      ELSE session_item.title
         IN replace_item(sessions,
                [session_item EXCEPT !.title = title])

\* add_message_to_session: returns a bool; ownership is verified by reading
\* the session in the caller's partition; every error yields False
add_message_to_session(sessions, messages, session_id, user_id, content, role, attachments, now, message_id, fault) ==
    IF fault = "read_item" \/ ~HasItem(sessions, session_id, user_id)
    THEN [ret |-> FALSE, sessions |-> sessions, messages |-> messages]
    ELSE IF fault = "create_item"
    THEN [ret |-> FALSE, sessions |-> sessions, messages |-> messages]
    ELSE [ret |-> TRUE,
          sessions |-> update_session_activity(sessions, session_id, user_id,
                                               content, role, fault),
          messages |-> Append(messages,
                              ChatMessage(message_id, session_id, role, content,
                                          now, attachments))]

\* CosmosDBService.delete_conversation: soft delete, False on not-found or error
cosmos_delete_conversation(sessions, session_id, user_id, fault) ==
    IF fault \in {"read_item", "replace_item"} \/ ~HasItem(sessions, session_id, user_id)
    THEN [ret |-> FALSE, sessions |-> sessions]
    ELSE LET session_item == read_item(sessions, session_id, user_id)
         IN [ret |-> TRUE,
             sessions |-> replace_item(sessions,
                 [session_item EXCEPT !.is_active = FALSE])]

\* CosmosDBService.update_message_feedback is called by the facade with
\* (session_id, message_id, feedback): it sets the feedback of the message
\* with that id in the session's partition; not-found is False
cosmos_update_message_feedback(messages, session_id, message_id, feedback, fault) ==
    LET hit == {i \in 1..Len(messages) :
                  messages[i].sessionId = session_id /\ messages[i].id = message_id}
    IN IF fault = "store" THEN [status |-> "raised", messages |-> messages]
       ELSE IF hit = {} THEN [status |-> "false", messages |-> messages]
       ELSE [status |-> "true",
             messages |-> [i \in 1..Len(messages) |->
                             IF i \in hit THEN [messages[i] EXCEPT !.feedback = feedback]
                             ELSE messages[i]]]

\* ------------------------------------- ConversationService: fallback map
\* self._in_memory_store: a dict keyed by conversation id (insertion order)
mem_has(store, id) == \E i \in 1..Len(store) : store[i].id = id

mem_index(store, id) == CHOOSE i \in 1..Len(store) : store[i].id = id

mem_lookup(store, id) == store[mem_index(store, id)]

\* self._in_memory_store[conversation_id] = conversation
mem_put(store, conv) ==
    IF mem_has(store, conv.id)
    THEN [store EXCEPT ![mem_index(store, conv.id)] = conv]
    ELSE Append(store, conv)

\* ChatConversation built by the fallback of create_conversation
MemConversation(id, user_id, title) ==
    [id |-> id, user_id |-> user_id,
     title |-> IF title = None THEN "New Conversation" ELSE title,
     messages |-> <<>>, is_active |-> TRUE]

\* the summary the fallback of get_user_conversations builds
mem_summary(conv) ==
    ConversationSummary(conv.id, conv.title,
        IF conv.messages = <<>> THEN None
        ELSE conv.messages[Len(conv.messages)].content,
        Len(conv.messages), conv.is_active)

RECURSIVE mem_summaries(_)
mem_summaries(q) ==
    IF q = <<>> THEN <<>> ELSE <<mem_summary(Head(q))>> \o mem_summaries(Tail(q))

\* fallback of get_user_conversations: the set of lists it may return
\* (updated_at is not modelled: sorted() may yield the conversations in any order)
mem_get_user_conversations(store, user_id, limit) ==
    LET user_conversations == {c \in Range(store) : c.user_id = user_id /\ c.is_active}
    IN {mem_summaries(SubSeq(q, 1, Min(limit, Len(q)))) :
          q \in Perms(user_conversations)}

\* variant: the fallback fetch without the user_id comparison
mem_get_conversation_any(store, conversation_id, user_id) ==
    IF mem_has(store, conversation_id)
    THEN LET c == mem_lookup(store, conversation_id)
         IN ChatConversation(c.id, c.user_id, c.title, c.messages, c.is_active)
    ELSE NoConversation

\* fallback of get_conversation
mem_get_conversation(store, conversation_id, user_id) ==
    IF mem_has(store, conversation_id) /\ mem_lookup(store, conversation_id).user_id = user_id
    THEN LET c == mem_lookup(store, conversation_id)
         IN ChatConversation(c.id, c.user_id, c.title, c.messages, c.is_active)
    ELSE NoConversation

\* variant: the fallback append without the user_id comparison
mem_add_message_any(store, conversation_id, user_id, content, role, attachments, now, message_id) ==
    IF mem_has(store, conversation_id)
    THEN LET c == mem_lookup(store, conversation_id)
             message == ChatMessage(message_id, conversation_id, role, content,
                                    now, attachments)
         IN [ret |-> message_id,
             store |-> mem_put(store, [c EXCEPT !.messages = Append(@, message)])]
    ELSE [ret |-> None, store |-> store]

\* fallback of add_message: the id of the appended message, or None
mem_add_message(store, conversation_id, user_id, content, role, attachments, now, message_id) ==
    IF mem_has(store, conversation_id) /\ mem_lookup(store, conversation_id).user_id = user_id
    THEN LET c == mem_lookup(store, conversation_id)
             message == ChatMessage(message_id, conversation_id, role, content,
                                    now, attachments)
         IN [ret |-> message_id,
             store |-> mem_put(store, [c EXCEPT !.messages = Append(@, message)])]
    ELSE [ret |-> None, store |-> store]

\* fallback of update_message_feedback: the first message with that id
\* variant: the feedback is set on every message of the conversation
mem_update_message_feedback_all(store, session_id, message_id, feedback) ==
    IF mem_has(store, session_id)
       /\ \E k \in 1..Len(mem_lookup(store, session_id).messages) :
              mem_lookup(store, session_id).messages[k].id = message_id
    THEN LET c == mem_lookup(store, session_id)
         IN [ret |-> TRUE,
             store |-> mem_put(store,
                 [c EXCEPT !.messages = [k \in 1..Len(c.messages) |->
                                           [c.messages[k] EXCEPT !.feedback = feedback]]])]
    ELSE [ret |-> FALSE, store |-> store]

mem_update_message_feedback(store, session_id, message_id, feedback) ==
    IF mem_has(store, session_id)
       /\ \E k \in 1..Len(mem_lookup(store, session_id).messages) :
              mem_lookup(store, session_id).messages[k].id = message_id
    THEN LET c == mem_lookup(store, session_id)
             k == CHOOSE k \in 1..Len(c.messages) :
                     /\ c.messages[k].id = message_id
                     /\ \A j \in 1..(k - 1) : c.messages[j].id # message_id
         IN [ret |-> TRUE,
             store |-> mem_put(store, [c EXCEPT !.messages[k].feedback = feedback])]
    ELSE [ret |-> FALSE, store |-> store]

\* fallback of delete_conversation
mem_delete_conversation(store, conversation_id, user_id) ==
    IF mem_has(store, conversation_id) /\ mem_lookup(store, conversation_id).user_id = user_id
    THEN [ret |-> TRUE,
          store |-> mem_put(store, [mem_lookup(store, conversation_id)
                                      EXCEPT !.is_active = FALSE])]
    ELSE [ret |-> FALSE, store |-> store]

\* ------------------------------------------ ConversationService (facade)
\* the record kept of a facade call: its arguments (id: the conversation id,
\* for get_user_conversations the limit), whether a Cosmos call of it raised,
\* the store that served it and what it returned
Call(op, user_id, id, fault, served_by, ok, ret, conv, summaries, after_delete) ==
    [op |-> op, user_id |-> user_id, id |-> id, failed |-> fault # "none",
     served_by |-> served_by, ok |-> ok, ret |-> ret, conv |-> conv,
     summaries |-> summaries, after_delete |-> after_delete]

RECURSIVE mem_message_total(_)
mem_message_total(store) ==
    IF store = <<>> THEN 0
    ELSE Len(Head(store).messages) + mem_message_total(Tail(store))

TotalMsgs == Len(messages_container) + mem_message_total(in_memory_store)

TotalSessions == Cardinality(sessions_container) + Len(in_memory_store)

RECURSIVE mem_message_ids(_)
mem_message_ids(store) ==
    IF store = <<>> THEN {}
    ELSE {Head(store).messages[i].id : i \in 1..Len(Head(store).messages)} \cup mem_message_ids(Tail(store))

\* the ids of the messages either store holds
MessageIdsInUse ==
    {messages_container[i].id : i \in 1..Len(messages_container)} \cup mem_message_ids(in_memory_store)

\* uuid4 for the next message: fresh, the first id no stored message has
NewMessageId ==
    MsgId(CHOOSE n \in 1..(TotalMsgs + 1) :
             /\ MsgId(n) \notin MessageIdsInUse
             /\ \A k \in 1..(n - 1) : MsgId(k) \in MessageIdsInUse)

\* the id of the conversation a delete_conversation of this user has just
\* returned True for, when that was the call before this one
AfterDelete(user_id) ==
    IF last.op = "delete_conversation" /\ last.ok /\ last.user_id = user_id
    THEN last.id ELSE None

\* input sets of the concurrent calls and of AIFoundryService
CallIds == {"call_1", "call_2"}
TaskIds == {"add", "delete"}
NoDoc == [id |-> None]

\* no concurrent CosmosDBService call, no AIFoundryService call so far
TaskIdle == [pc |-> "idle", id |-> None, content |-> None, role |-> None, session_item |-> NoDoc, ret |-> None]

TasksIdle == store_tasks = [t \in TaskIds |-> TaskIdle]

SendIdle == [pc |-> "idle", text |-> None, run |-> NoRun, observed |-> {}, asked |-> {}, timed_out |-> FALSE, posted_with |-> {}]

AgentIdle ==
    /\ thread_messages = <<>>
    /\ open_clients = {}
    /\ send_calls = [c \in CallIds |-> SendIdle]
    /\ agent_last = [op |-> "init", n |-> 0, ok |-> FALSE, messages |-> <<>>, count |-> 0]

\* AIFoundryService as built by __init__: no token call made yet
TokenIdle ==
    /\ msal_app = 0
    /\ token_pc = "idle"
    /\ responses = <<>>
    /\ attempt = 0
    /\ last_exception = None
    /\ token_result = None
    /\ sleeps = <<>>
    /\ token_calls = 0

\* no Cosmos call is made without a store
FaultOk(fault) == cosmos_service \/ fault = "none"

Init ==
    /\ cosmos_service \in BOOLEAN
    /\ sessions_container = {}
    /\ messages_container = <<>>
    /\ in_memory_store = <<>>
    /\ clock = 0
    /\ every_call_failed = TRUE
    /\ last = Call("init", None, None, "none", "none", FALSE, None, NoConversation, <<>>, None)
    /\ thread_runs = [r \in RunIds |-> NoRun]
    /\ pc = "start"
    /\ runs_list = [r \in RunIds |-> NoRun]
    /\ active_runs = <<>>
    /\ elapsed = 0
    /\ cancel_requests = {}
    /\ TokenIdle
    /\ TasksIdle
    /\ AgentIdle

Tick ==
    /\ clock < MaxClock
    /\ clock' = clock + 1
    /\ UNCHANGED <<cosmos_service, sessions_container, messages_container,
                   in_memory_store, every_call_failed, last>>
    /\ UNCHANGED <<run_vars, token_vars, task_vars, agent_vars>>

create_conversation(user_id, title, gen, mem_id, fault) ==
    LET r == create_session(sessions_container, user_id, title, gen, fault)
        durable == cosmos_service /\ r.status = "created"
        conversation == MemConversation(mem_id, user_id, title)
    IN /\ FaultOk(fault)
       /\ cosmos_service => r.status # "pending"
       /\ sessions_container' = IF durable THEN r.sessions ELSE sessions_container
       /\ in_memory_store' = IF durable THEN in_memory_store
                             ELSE mem_put(in_memory_store, conversation)
       /\ every_call_failed' = (every_call_failed /\
                                 (cosmos_service => (fault = "create_item" /\ Len(gen) = 1)))
       /\ last' = IF durable
                  THEN Call("create_conversation", user_id, r.session.id, fault, "cosmos",
                            TRUE, None,
                            ChatConversation(r.session.id, user_id, r.session.title, <<>>, TRUE),
                            <<>>, None)
                  ELSE Call("create_conversation", user_id, mem_id, fault, "memory",
                            TRUE, None,
                            ChatConversation(mem_id, user_id, conversation.title, <<>>, TRUE),
                            <<>>, None)
       /\ UNCHANGED <<cosmos_service, messages_container, clock>>
       /\ UNCHANGED <<run_vars, token_vars, task_vars, agent_vars>>

get_user_conversations(user_id, limit, fault) ==
    /\ FaultOk(fault)
    /\ \E summaries \in
           IF cosmos_service
           THEN cosmos_get_user_conversations(sessions_container, messages_container,
                                              user_id, limit, fault)
           ELSE mem_get_user_conversations(in_memory_store, user_id, limit) :
         last' = Call("get_user_conversations", user_id, limit, fault,
                      IF cosmos_service THEN "cosmos" ELSE "memory",
                      summaries # <<>>, None, NoConversation, summaries,
                      AfterDelete(user_id))
    /\ every_call_failed' = (every_call_failed /\ (cosmos_service => fault = "query"))
    /\ UNCHANGED <<cosmos_service, sessions_container, messages_container,
                   in_memory_store, clock>>
    /\ UNCHANGED <<run_vars, token_vars, task_vars, agent_vars>>

get_conversation(conversation_id, user_id, fault) ==
    /\ FaultOk(fault)
    /\ \E conversation \in
           IF cosmos_service
           THEN cosmos_get_conversation(sessions_container, messages_container,
                                        conversation_id, user_id, fault)
           ELSE {mem_get_conversation(in_memory_store, conversation_id, user_id)} :
         last' = Call("get_conversation", user_id, conversation_id, fault,
                      IF cosmos_service THEN "cosmos" ELSE "memory",
                      conversation # NoConversation, None, conversation, <<>>,
                      AfterDelete(user_id))
    /\ every_call_failed' = (every_call_failed /\ (cosmos_service => fault = "read_item"))
    /\ UNCHANGED <<cosmos_service, sessions_container, messages_container,
                   in_memory_store, clock>>
    /\ UNCHANGED <<run_vars, token_vars, task_vars, agent_vars>>

\* get_conversation_messages: the messages of the conversation that
\* get_conversation returned, [] when it returned None
get_conversation_messages(conversation) ==
    IF conversation = NoConversation THEN <<>> ELSE conversation.messages

add_message(conversation_id, user_id, content, role, attachments, fault) ==
    LET r == add_message_to_session(sessions_container, messages_container,
                                    conversation_id, user_id, content, role,
                                    attachments, clock, NewMessageId, fault)
        durable == cosmos_service /\ r.ret
        m == mem_add_message(in_memory_store, conversation_id, user_id, content,
                             role, attachments, clock, NewMessageId)
    IN /\ FaultOk(fault)
       /\ sessions_container' = IF durable THEN r.sessions ELSE sessions_container
       /\ messages_container' = IF durable THEN r.messages ELSE messages_container
       /\ in_memory_store' = IF durable THEN in_memory_store ELSE m.store
       /\ every_call_failed' = (every_call_failed /\ (cosmos_service => fault = "read_item"))
       /\ last' = IF durable
                  THEN Call("add_message", user_id, conversation_id, fault, "cosmos",
                            TRUE, "True", NoConversation, <<>>, None)
                  ELSE Call("add_message", user_id, conversation_id, fault,
                            IF m.ret # None THEN "memory" ELSE "none",
                            m.ret # None, m.ret, NoConversation, <<>>, None)
       /\ UNCHANGED <<cosmos_service, clock>>
       /\ UNCHANGED <<run_vars, token_vars, task_vars, agent_vars>>

delete_conversation(conversation_id, user_id, fault) ==
    LET r == cosmos_delete_conversation(sessions_container, conversation_id,
                                        user_id, fault)
        durable == cosmos_service /\ r.ret
        m == mem_delete_conversation(in_memory_store, conversation_id, user_id)
    IN /\ FaultOk(fault)
       /\ sessions_container' = IF durable THEN r.sessions ELSE sessions_container
       /\ in_memory_store' = IF durable THEN in_memory_store ELSE m.store
       /\ every_call_failed' = (every_call_failed /\ (cosmos_service => fault = "read_item"))
       /\ last' = Call("delete_conversation", user_id, conversation_id, fault,
                       IF durable THEN "cosmos" ELSE IF m.ret THEN "memory" ELSE "none",
                       durable \/ m.ret, None, NoConversation, <<>>, None)
       /\ UNCHANGED <<cosmos_service, messages_container, clock>>
       /\ UNCHANGED <<run_vars, token_vars, task_vars, agent_vars>>

\* update_message_feedback takes no user id; caller is the user on whose
\* behalf the HTTP layer issues it
update_message_feedback(caller, session_id, message_id, feedback, fault) ==
    LET r == cosmos_update_message_feedback(messages_container, session_id,
                                            message_id, feedback, fault)
        durable == cosmos_service /\ r.status = "true"
        m == mem_update_message_feedback(in_memory_store, session_id, message_id, feedback)
    IN /\ FaultOk(fault)
       /\ messages_container' = IF durable THEN r.messages ELSE messages_container
       /\ in_memory_store' = IF durable THEN in_memory_store ELSE m.store
       /\ every_call_failed' = (every_call_failed /\ (cosmos_service => fault = "store"))
       /\ last' = Call("update_message_feedback", caller, session_id, fault,
                       IF durable THEN "cosmos" ELSE IF m.ret THEN "memory" ELSE "none",
                       durable \/ m.ret, message_id, NoConversation, <<>>, None)
       /\ UNCHANGED <<cosmos_service, sessions_container, clock>>
       /\ UNCHANGED <<run_vars, token_vars, task_vars, agent_vars>>

Gens == UNION {[1..n -> DurIds] : n \in 1..MaxGen}
AllIds == DurIds \cup MemIds
MessageIds == {MsgId(n) : n \in 1..MaxMsgs}
Feedbacks == {"positive", None}

\* Spec: two users, up to MaxSessions sessions and MaxMsgs messages, no
\* time passing
Next ==
    \/ \E u \in Users, t \in Titles, g \in Gens, m \in MemIds, f \in {"none", "create_item"} :
          /\ cosmos_service
          /\ create_conversation(u, t, g, m, f)
          /\ TotalSessions' <= MaxSessions
    \/ \E u \in Users, t \in Titles, m \in MemIds :
          /\ ~cosmos_service
          /\ create_conversation(u, t, <<>>, m, "none")
          /\ TotalSessions' <= MaxSessions
    \/ \E u \in Users, l \in Limits, f \in {"none", "query"} :
          get_user_conversations(u, l, f)
    \/ \E id \in AllIds, u \in Users, f \in {"none", "read_item"} :
          get_conversation(id, u, f)
    \/ \E id \in AllIds, u \in Users, c \in Contents, r \in Roles, a \in Attachments,
          f \in {"none", "read_item", "create_item", "activity"} :
          add_message(id, u, c, r, a, f) /\ TotalMsgs' <= MaxMsgs
    \/ \E id \in AllIds, u \in Users, f \in {"none", "read_item", "replace_item"} :
          delete_conversation(id, u, f)
    \/ \E u \in Users, id \in AllIds, mid \in MessageIds, fb \in Feedbacks,
          f \in {"none", "store"} :
          update_message_feedback(u, id, mid, fb, f)

Spec == Init /\ [][Next]_vars

\* SpecSeq: one user, up to MaxSeqSessions sessions and MaxSeqMsgs messages,
\* with time passing between the calls
SeqUser == "u1"

NextSeq ==
    \/ Tick
    \/ \E t \in Titles, g \in Gens, m \in MemIds, f \in {"none", "create_item"} :
          /\ cosmos_service
          /\ create_conversation(SeqUser, t, g, m, f)
          /\ TotalSessions' <= MaxSeqSessions
    \/ \E t \in Titles, m \in MemIds :
          /\ ~cosmos_service
          /\ create_conversation(SeqUser, t, <<>>, m, "none")
          /\ TotalSessions' <= MaxSeqSessions
    \/ \E l \in Limits, f \in {"none", "query"} :
          get_user_conversations(SeqUser, l, f)
    \/ \E id \in AllIds, f \in {"none", "read_item", "messages_query"} :
          get_conversation(id, SeqUser, f)
    \/ \E id \in AllIds, c \in Contents, r \in Roles, a \in Attachments,
          f \in {"none", "read_item", "create_item", "activity"} :
          add_message(id, SeqUser, c, r, a, f) /\ TotalMsgs' <= MaxSeqMsgs

SpecSeq == Init /\ [][NextSeq]_vars

\* SpecText: SpecSeq without store faults in add_message, with contents
\* that are short, a placeholder title, longer than 50 and longer than 100
\* characters, and with sessions created with and without a title
Text51 == "What were the escalation rates of the last quarter?"
Text101 == "Please summarise the ten longest calls of last week and list the agents who handled each one of them."
TextContents == {"Hello", "New Chat", Text51, Text101}
TextTitles == {None, "Escalations"}

NextText ==
    \/ Tick
    \/ \E t \in TextTitles, g \in Gens, m \in MemIds, f \in {"none", "create_item"} :
          /\ cosmos_service
          /\ create_conversation(SeqUser, t, g, m, f)
          /\ TotalSessions' <= MaxSeqSessions
    \/ \E t \in TextTitles, m \in MemIds :
          /\ ~cosmos_service
          /\ create_conversation(SeqUser, t, <<>>, m, "none")
          /\ TotalSessions' <= MaxSeqSessions
    \/ get_user_conversations(SeqUser, DefaultLimit, "none")
    \/ \E id \in AllIds, c \in TextContents, r \in Roles, a \in Attachments :
          add_message(id, SeqUser, c, r, a, "none") /\ TotalMsgs' <= MaxSeqMsgs

SpecText == Init /\ [][NextText]_vars

\* SpecFeedback: one user, up to MaxSeqSessions sessions and MaxSeqMsgs
\* messages, feedback on stored and on unknown message ids, soft delete
FeedbackMessageIds == {MsgId(n) : n \in 1..(MaxSeqMsgs + 1)}

NextFeedback ==
    \/ \E t \in Titles, g \in Gens, m \in MemIds, f \in {"none", "create_item"} :
          /\ cosmos_service
          /\ create_conversation(SeqUser, t, g, m, f)
          /\ TotalSessions' <= MaxSeqSessions
    \/ \E t \in Titles, m \in MemIds :
          /\ ~cosmos_service
          /\ create_conversation(SeqUser, t, <<>>, m, "none")
          /\ TotalSessions' <= MaxSeqSessions
    \/ \E id \in AllIds, c \in Contents, r \in Roles, a \in Attachments :
          add_message(id, SeqUser, c, r, a, "none") /\ TotalMsgs' <= MaxSeqMsgs
    \/ \E id \in AllIds, f \in {"none", "read_item", "replace_item"} :
          delete_conversation(id, SeqUser, f)
    \/ \E id \in AllIds, mid \in FeedbackMessageIds, fb \in Feedbacks, f \in {"none", "store"} :
          update_message_feedback(SeqUser, id, mid, fb, f)

SpecFeedback == Init /\ [][NextFeedback]_vars

\* ------------------------- CosmosDBService: two calls on one event loop
\* add_message_to_session(id, SeqUser, content, role) and
\* delete_conversation(id, SeqUser) as coroutines: every awaited Cosmos call
\* is a step of its own, so the steps of the two calls interleave. No
\* Cosmos call raises here.
RaceFrame ==
    /\ UNCHANGED <<cosmos_service, in_memory_store, clock, every_call_failed, last>>
    /\ UNCHANGED <<run_vars, token_vars, agent_vars>>

\* the call is made
AddStart(id, content, role) ==
    /\ cosmos_service
    /\ store_tasks["add"].pc = "idle"
    /\ TotalMsgs < MaxSeqMsgs
    /\ store_tasks' = [store_tasks EXCEPT !["add"] = [TaskIdle EXCEPT !.pc = "verify", !.id = id, !.content = content, !.role = role]]
    /\ UNCHANGED <<sessions_container, messages_container>>
    /\ RaceFrame

\* "Verify session exists and belongs to user": read_item, not found -> False
AddVerify ==
    /\ store_tasks["add"].pc = "verify"
    /\ LET t == store_tasks["add"]
       IN store_tasks' = [store_tasks EXCEPT !["add"] =
              IF HasItem(sessions_container, t.id, SeqUser)
              THEN [t EXCEPT !.pc = "create_item"]
              ELSE [t EXCEPT !.pc = "done", !.ret = "False"]]
    /\ UNCHANGED <<sessions_container, messages_container>>
    /\ RaceFrame

\* messages_container.create_item(body=item)
AddCreateItem ==
    /\ store_tasks["add"].pc = "create_item"
    /\ LET t == store_tasks["add"]
       IN messages_container' = Append(messages_container,
              ChatMessage(NewMessageId, t.id, t.role, t.content, clock, <<>>))
    /\ store_tasks' = [store_tasks EXCEPT !["add"].pc = "activity_read"]
    /\ UNCHANGED sessions_container
    /\ RaceFrame

\* _update_session_activity: session_item = read_item(...); an error ends
\* the update and add_message_to_session returns True
AddActivityRead ==
    /\ store_tasks["add"].pc = "activity_read"
    /\ LET t == store_tasks["add"]
       IN store_tasks' = [store_tasks EXCEPT !["add"] =
              IF HasItem(sessions_container, t.id, SeqUser)
              THEN [t EXCEPT !.pc = "activity_replace",
                             !.session_item = read_item(sessions_container, t.id, SeqUser)]
              ELSE [t EXCEPT !.pc = "done", !.ret = "True"]]
    /\ UNCHANGED <<sessions_container, messages_container>>
    /\ RaceFrame

\* _update_session_activity: the title is derived on the document read,
\* replace_item(item=session_id, body=session_item) writes it back
AddActivityReplace ==
    /\ store_tasks["add"].pc = "activity_replace"
    /\ LET t == store_tasks["add"]
           title == IF t.role = "user" /\ t.session_item.title \in PLACEHOLDER_TITLES
                    THEN Prefix(t.content, 50) \o (IF Len(t.content) > 50 THEN "..." ELSE "")
                    ELSE t.session_item.title
       IN sessions_container' = replace_item(sessions_container,
              [t.session_item EXCEPT !.title = title])
    /\ store_tasks' = [store_tasks EXCEPT !["add"] = [store_tasks["add"] EXCEPT !.pc = "done", !.ret = "True"]]
    /\ UNCHANGED messages_container
    /\ RaceFrame

\* the call is made
DeleteStart(id) ==
    /\ cosmos_service
    /\ store_tasks["delete"].pc = "idle"
    /\ store_tasks' = [store_tasks EXCEPT !["delete"] = [TaskIdle EXCEPT !.pc = "read", !.id = id]]
    /\ UNCHANGED <<sessions_container, messages_container>>
    /\ RaceFrame

\* delete_conversation: session_item = read_item(...); not found -> False
DeleteRead ==
    /\ store_tasks["delete"].pc = "read"
    /\ LET t == store_tasks["delete"]
       IN store_tasks' = [store_tasks EXCEPT !["delete"] =
              IF HasItem(sessions_container, t.id, SeqUser)
              THEN [t EXCEPT !.pc = "replace",
                             !.session_item = read_item(sessions_container, t.id, SeqUser)]
              ELSE [t EXCEPT !.pc = "done", !.ret = "False"]]
    /\ UNCHANGED <<sessions_container, messages_container>>
    /\ RaceFrame

\* delete_conversation: session_item['is_active'] = False; replace_item;
\* return True
DeleteReplace ==
    /\ store_tasks["delete"].pc = "replace"
    /\ sessions_container' = replace_item(sessions_container,
           [store_tasks["delete"].session_item EXCEPT !.is_active = FALSE])
    /\ store_tasks' = [store_tasks EXCEPT !["delete"] = [store_tasks["delete"] EXCEPT !.pc = "done", !.ret = "True"]]
    /\ UNCHANGED messages_container
    /\ RaceFrame

\* SpecRace: one session of SeqUser in the durable store, one call of each
\* of the two methods, and listings
InitRace == Init /\ cosmos_service

NextRace ==
    \/ \E t \in Titles, g \in Gens, m \in MemIds :
          /\ create_conversation(SeqUser, t, g, m, "none")
          /\ TotalSessions' <= MaxSeqSessions
    \/ get_user_conversations(SeqUser, DefaultLimit, "none")
    \/ \E id \in DurIds, c \in Contents, r \in Roles : AddStart(id, c, r)
    \/ AddVerify
    \/ AddCreateItem
    \/ AddActivityRead
    \/ AddActivityReplace
    \/ \E id \in DurIds : DeleteStart(id)
    \/ DeleteRead
    \/ DeleteReplace

SpecRace == InitRace /\ [][NextRace]_vars

\* ------------------------------------------- AIFoundryService: reconciler
terminal_statuses == {"completed", "cancelled", "failed", "expired"}

cancellable_statuses == {"queued", "in_progress", "requires_action"}

RunStatuses == cancellable_statuses \cup {"cancelling"} \cup terminal_statuses

max_wait_seconds == 15

polls_per_second == 2

\* variant: a listing filter that takes only completed runs as finished
not_completed(runs) ==
    {r \in RunIds : runs[r] # NoRun /\ runs[r] # "completed"}

\* [r for r in runs if r.status not in terminal_statuses]
not_terminal(runs) ==
    {r \in RunIds : runs[r] # NoRun /\ runs[r] \notin terminal_statuses}

\* the statuses the remote service may move a run to on its own
next_statuses(status) ==
    CASE status = "queued" -> {"in_progress"}
      [] status = "in_progress" -> {"requires_action", "completed", "failed", "expired"}
      [] status = "requires_action" -> {"in_progress", "expired"}
      [] status = "cancelling" -> {"cancelled"}
      [] OTHER -> {}

\* the remote service moves a run on
RunProgress(r) ==
    /\ thread_runs[r] # NoRun
    /\ \E status \in next_statuses(thread_runs[r]) :
          thread_runs' = [thread_runs EXCEPT ![r] = status]
    /\ UNCHANGED <<pc, runs_list, active_runs, elapsed, cancel_requests>>
    /\ UNCHANGED <<store_vars, token_vars, task_vars, agent_vars>>

\* first listing; return when no listed run is non-terminal
EnsureList ==
    /\ pc = "start"
    /\ runs_list' = thread_runs
    /\ IF not_terminal(thread_runs) = {}
       THEN /\ pc' = "returned"
            /\ active_runs' = <<>>
       ELSE /\ pc' = "cancel"
            /\ active_runs' \in Perms(not_terminal(thread_runs))
    /\ UNCHANGED <<thread_runs, elapsed, cancel_requests>>
    /\ UNCHANGED <<store_vars, token_vars, task_vars, agent_vars>>

\* variant: a cancel request that fails ends the cancel loop
EnsureCancelAbort(accepted) ==
    /\ pc = "cancel"
    /\ active_runs # <<>>
    /\ LET run == Head(active_runs)
           failed == runs_list[run] \in cancellable_statuses /\ ~accepted
       IN /\ IF runs_list[run] \in cancellable_statuses
             THEN /\ cancel_requests' = cancel_requests \cup {run}
                  /\ IF accepted /\ thread_runs[run] \in cancellable_statuses
                     THEN \E status \in {"cancelling", "cancelled"} :
                             thread_runs' = [thread_runs EXCEPT ![run] = status]
                     ELSE UNCHANGED thread_runs
             ELSE UNCHANGED <<cancel_requests, thread_runs>>
          /\ active_runs' = IF failed THEN <<>> ELSE Tail(active_runs)
          /\ pc' = IF failed \/ Tail(active_runs) = <<>> THEN "poll" ELSE "cancel"
    /\ elapsed' = 0
    /\ UNCHANGED runs_list
    /\ UNCHANGED <<store_vars, token_vars, task_vars, agent_vars>>

\* variant: every listed run that is not terminal is asked to cancel
EnsureCancelAny(accepted) ==
    /\ pc = "cancel"
    /\ active_runs # <<>>
    /\ LET run == Head(active_runs)
       IN /\ cancel_requests' = cancel_requests \cup {run}
          /\ IF accepted /\ thread_runs[run] \in cancellable_statuses
             THEN \E status \in {"cancelling", "cancelled"} :
                     thread_runs' = [thread_runs EXCEPT ![run] = status]
             ELSE UNCHANGED thread_runs
    /\ active_runs' = Tail(active_runs)
    /\ pc' = IF Tail(active_runs) = <<>> THEN "poll" ELSE "cancel"
    /\ elapsed' = 0
    /\ UNCHANGED runs_list
    /\ UNCHANGED <<store_vars, token_vars, task_vars, agent_vars>>

\* one turn of the cancel loop: the run is asked to cancel when its listed
\* status is cancellable; accepted: the service takes the request, else the
\* request raises and the exception is logged
EnsureCancel(accepted) ==
    /\ pc = "cancel"
    /\ active_runs # <<>>
    /\ LET run == Head(active_runs)
       IN IF runs_list[run] \in cancellable_statuses
          THEN /\ cancel_requests' = cancel_requests \cup {run}
               /\ IF accepted /\ thread_runs[run] \in cancellable_statuses
                  THEN \E status \in {"cancelling", "cancelled"} :
                          thread_runs' = [thread_runs EXCEPT ![run] = status]
                  ELSE UNCHANGED thread_runs
          ELSE UNCHANGED <<cancel_requests, thread_runs>>
    /\ active_runs' = Tail(active_runs)
    /\ pc' = IF Tail(active_runs) = <<>> THEN "poll" ELSE "cancel"
    /\ elapsed' = 0
    /\ UNCHANGED runs_list
    /\ UNCHANGED <<store_vars, token_vars, task_vars, agent_vars>>

\* variant: a poll loop that never returns early
EnsurePollNoReturn ==
    /\ pc = "poll"
    /\ elapsed < max_wait_seconds * polls_per_second
    /\ elapsed' = elapsed + 1
    /\ pc' = "poll"
    /\ UNCHANGED <<thread_runs, runs_list, active_runs, cancel_requests>>
    /\ UNCHANGED <<store_vars, token_vars, task_vars, agent_vars>>

\* one turn of the poll loop: sleep, list again, return when no run is
\* non-terminal
EnsurePoll ==
    /\ pc = "poll"
    /\ elapsed < max_wait_seconds * polls_per_second
    /\ elapsed' = elapsed + 1
    /\ pc' = IF not_terminal(thread_runs) = {} THEN "returned" ELSE "poll"
    /\ UNCHANGED <<thread_runs, runs_list, active_runs, cancel_requests>>
    /\ UNCHANGED <<store_vars, token_vars, task_vars, agent_vars>>

\* variant: no timeout branch, the call stays in the poll loop
EnsureTimeoutStuck ==
    /\ pc = "poll"
    /\ ~(elapsed < max_wait_seconds * polls_per_second)
    /\ pc' = "poll"
    /\ UNCHANGED <<thread_runs, runs_list, active_runs, elapsed, cancel_requests>>
    /\ UNCHANGED <<store_vars, token_vars, task_vars, agent_vars>>

\* the poll loop ran out: warn and return
EnsureTimeout ==
    /\ pc = "poll"
    /\ ~(elapsed < max_wait_seconds * polls_per_second)
    /\ pc' = "timed_out"
    /\ UNCHANGED <<thread_runs, runs_list, active_runs, elapsed, cancel_requests>>
    /\ UNCHANGED <<store_vars, token_vars, task_vars, agent_vars>>

\* SpecRuns: one call of _ensure_no_active_runs on a thread that holds up to
\* two runs in any status
InitRuns ==
    /\ cosmos_service = FALSE
    /\ sessions_container = {}
    /\ messages_container = <<>>
    /\ in_memory_store = <<>>
    /\ clock = 0
    /\ every_call_failed = TRUE
    /\ last = Call("init", None, None, "none", "none", FALSE, None, NoConversation, <<>>, None)
    /\ thread_runs \in [RunIds -> RunStatuses \cup {NoRun}]
    /\ pc = "start"
    /\ runs_list = [r \in RunIds |-> NoRun]
    /\ active_runs = <<>>
    /\ elapsed = 0
    /\ cancel_requests = {}
    /\ TokenIdle
    /\ TasksIdle
    /\ AgentIdle

NextRuns ==
    \/ \E r \in RunIds : RunProgress(r)
    \/ EnsureList
    \/ \E accepted \in BOOLEAN : EnsureCancel(accepted)
    \/ EnsurePoll
    \/ EnsureTimeout

SpecRuns == InitRuns /\ [][NextRuns]_vars

\* a step of the call itself; each await of the coroutine completes
EnsureStep ==
    \/ EnsureList
    \/ \E accepted \in BOOLEAN : EnsureCancel(accepted)
    \/ EnsurePoll
    \/ EnsureTimeout

\* SpecRunsFair: SpecRuns in which the call keeps being scheduled; the remote
\* service need not ever move a run
SpecRunsFair == InitRuns /\ [][NextRuns]_vars /\ WF_vars(EnsureStep)

\* ------------------------------------- AIFoundryService: credential broker
max_retries == 3

AccessTokens == {"tok_1"}

\* exceptions acquire_token_on_behalf_of may raise that are no ValueError
TransportErrors == {"ConnectionError", "Timeout"}

\* exceptions it may raise that are a ValueError: a response that is not
\* JSON raises json.JSONDecodeError
TransportValueErrors == {"JSONDecodeError"}

\* what one exchange attempt does: the result dict holds an access token;
\* the result dict holds none (the identity provider rejects the exchange);
\* the call raises
ExchangeOutcomes ==
    {[kind |-> "token", what |-> t] : t \in AccessTokens}
    \cup {[kind |-> "rejected", what |-> "invalid_grant"]}
    \cup {[kind |-> "raises", what |-> x] : x \in TransportErrors \cup TransportValueErrors}

\* the exception object an attempt raises: its type and the attempt it is of
Raised(type, n) == [type |-> type, attempt |-> n]

\* raise ValueError(f"MSAL OBO token acquisition failed: {error_msg}")
AuthError(n) == Raised("ValueError", n)

IsValueError(type) == type \in {"ValueError"} \cup TransportValueErrors

\* entry of _get_azure_ai_token: max_retries = 3, last_exception = None
GetToken(script) ==
    /\ token_pc \in {"idle", "returned", "raised"}
    /\ token_calls < MaxTokenCalls
    /\ token_calls' = token_calls + 1
    /\ responses' = script
    /\ token_pc' = "trying"
    /\ attempt' = 1
    /\ last_exception' = None
    /\ token_result' = None
    /\ sleeps' = <<>>
    /\ UNCHANGED msal_app
    /\ UNCHANGED <<store_vars, run_vars, task_vars, agent_vars>>

\* variant: a missing access token is handled like a transport failure
ExchangeRetryAll ==
    /\ token_pc = "trying"
    /\ LET r == responses[attempt]
           e == IF r.kind = "rejected" THEN AuthError(attempt) ELSE Raised(r.what, attempt)
       IN IF r.kind = "token"
          THEN /\ token_pc' = "returned"
               /\ token_result' = r.what
               /\ UNCHANGED <<attempt, last_exception, sleeps, msal_app>>
          ELSE /\ last_exception' = e
               /\ IF attempt < max_retries
                  THEN /\ sleeps' = Append(sleeps, attempt)
                       /\ msal_app' = msal_app + 1
                       /\ attempt' = attempt + 1
                       /\ UNCHANGED <<token_pc, token_result>>
                  ELSE /\ token_pc' = "raised"
                       /\ token_result' = e
                       /\ UNCHANGED <<attempt, sleeps, msal_app>>
    /\ UNCHANGED <<responses, token_calls>>
    /\ UNCHANGED <<store_vars, run_vars, task_vars, agent_vars>>

\* one turn of the loop "for attempt in range(1, max_retries + 1)", with the
\* "raise last_exception" that follows the last turn:
\*  - access token: return it;
\*  - no access token: raise ValueError, which "except ValueError" re-raises;
\*  - the call raises a ValueError: "except ValueError" re-raises it;
\*  - the call raises another Exception: keep it in last_exception; while
\*    attempts remain sleep 0.5 * attempt seconds and rebuild msal_app
Exchange ==
    /\ token_pc = "trying"
    /\ LET r == responses[attempt]
       IN IF r.kind = "token"
          THEN /\ token_pc' = "returned"
               /\ token_result' = r.what
               /\ UNCHANGED <<attempt, last_exception, sleeps, msal_app>>
          ELSE IF r.kind = "rejected"
          THEN /\ token_pc' = "raised"
               /\ token_result' = AuthError(attempt)
               /\ UNCHANGED <<attempt, last_exception, sleeps, msal_app>>
          ELSE IF IsValueError(r.what)
          THEN /\ token_pc' = "raised"
               /\ token_result' = Raised(r.what, attempt)
               /\ UNCHANGED <<attempt, last_exception, sleeps, msal_app>>
          ELSE /\ last_exception' = Raised(r.what, attempt)
               /\ IF attempt < max_retries
                  THEN /\ sleeps' = Append(sleeps, attempt)
                       /\ msal_app' = msal_app + 1
                       /\ attempt' = attempt + 1
                       /\ UNCHANGED <<token_pc, token_result>>
                  ELSE /\ token_pc' = "raised"
                       /\ token_result' = last_exception'
                       /\ UNCHANGED <<attempt, sleeps, msal_app>>
    /\ UNCHANGED <<responses, token_calls>>
    /\ UNCHANGED <<store_vars, run_vars, task_vars, agent_vars>>

\* SpecToken: up to MaxTokenCalls calls of _get_azure_ai_token, one after
\* the other, on one AIFoundryService
InitToken ==
    /\ cosmos_service = FALSE
    /\ sessions_container = {}
    /\ messages_container = <<>>
    /\ in_memory_store = <<>>
    /\ clock = 0
    /\ every_call_failed = TRUE
    /\ last = Call("init", None, None, "none", "none", FALSE, None, NoConversation, <<>>, None)
    /\ thread_runs = [r \in RunIds |-> NoRun]
    /\ pc = "start"
    /\ runs_list = [r \in RunIds |-> NoRun]
    /\ active_runs = <<>>
    /\ elapsed = 0
    /\ cancel_requests = {}
    /\ TokenIdle
    /\ TasksIdle
    /\ AgentIdle

NextToken ==
    \/ \E script \in [1..max_retries -> ExchangeOutcomes] : GetToken(script)
    \/ Exchange

SpecToken == InitToken /\ [][NextToken]_vars

\* ------------------------------- AIFoundryService: calls on the thread
\* Every call gets a token from _get_azure_ai_token (SpecToken): here it
\* returns one or raises. Every call of the backend client may raise.
\* A backend client is named by the call that made it and its kind.
Direct == "direct"

ProjectClient(caller) == <<caller, "AIProjectClient">>

MessagesClient(caller) == <<caller, "AIProjectClient of get_conversation_messages">>

OpenAIClient(caller) == <<caller, "AzureOpenAI">>

\* str.strip() of a string of letters and blanks
RECURSIVE lstrip(_)
lstrip(str) ==
    IF Len(str) > 0 /\ SubSeq(str, 1, 1) = " " THEN lstrip(SubSeq(str, 2, Len(str))) ELSE str

RECURSIVE rstrip(_)
rstrip(str) ==
    IF Len(str) > 0 /\ SubSeq(str, Len(str), Len(str)) = " "
    THEN rstrip(SubSeq(str, 1, Len(str) - 1)) ELSE str

strip(str) == rstrip(lstrip(str))

ReplayRoles == {"user", "assistant", "system"}

ReplayContents == {"", " ", "Hi", " Hi "}

ReplayTurns == [role : ReplayRoles, content : ReplayContents]

ReplayInputs == UNION {[1..n -> ReplayTurns] : n \in 0..MaxReplay}

\* variant: the content is taken as it is
RECURSIVE replay_posts_raw(_)
replay_posts_raw(messages) ==
    IF messages = <<>> THEN <<>>
    ELSE LET msg == Head(messages)
             content == msg.content
         IN IF content = "" \/ msg.role \notin {"user", "assistant"}
            THEN replay_posts_raw(Tail(messages))
            ELSE <<[role |-> msg.role, content |-> content]>> \o replay_posts_raw(Tail(messages))

\* the loop of replay_history: content = msg.get("content", "").strip();
\* "if not content or role not in (user, assistant): continue"; else
\* messages.create(role=role, content=content)
RECURSIVE replay_posts(_)
replay_posts(messages) ==
    IF messages = <<>> THEN <<>>
    ELSE LET msg == Head(messages)
             content == strip(msg.content)
         IN IF content = "" \/ msg.role \notin {"user", "assistant"}
            THEN replay_posts(Tail(messages))
            ELSE <<[role |-> msg.role, content |-> content]>> \o replay_posts(Tail(messages))

\* the record kept of a call that ended
AgentCall(op, ok, messages, count) ==
    [op |-> op, n |-> agent_last.n + 1, ok |-> ok, messages |-> messages, count |-> count]

AgentFrame ==
    /\ UNCHANGED <<store_vars, token_vars, task_vars>>
    /\ UNCHANGED <<pc, runs_list, active_runs, elapsed, cancel_requests, send_calls>>

\* replay_history(conversation_id, messages, user_token); fail_at = k > 0:
\* the k-th messages.create raises; the client is closed in "finally"
replay_history(messages, token_ok, fail_at) ==
    LET posts == replay_posts(messages)
        raises == fail_at > 0
        posted == IF raises THEN SubSeq(posts, 1, fail_at - 1) ELSE posts
    IN /\ agent_last.n < MaxAgentCalls
       /\ fail_at <= Len(posts)
       /\ IF ~token_ok
          THEN /\ fail_at = 0
               /\ agent_last' = AgentCall("replay_history", FALSE, messages, 0)
               /\ UNCHANGED <<thread_messages, open_clients>>
          ELSE /\ Len(thread_messages) + Len(posted) <= MaxThreadMessages
               /\ thread_messages' = thread_messages \o posted
               /\ open_clients' = (open_clients \cup {ProjectClient(Direct)}) \ {ProjectClient(Direct)}
               /\ agent_last' = AgentCall("replay_history", ~raises, messages,
                                          IF raises THEN 0 ELSE Len(posts))
       /\ UNCHANGED thread_runs
       /\ AgentFrame

\* get_conversation_messages: what it leaves of the clients; the client
\* is made after the token and closed in "finally"
get_conversation_messages_clients(open, caller, outcome) ==
    IF outcome = "token_raises" THEN open
    ELSE (open \cup {MessagesClient(caller)}) \ {MessagesClient(caller)}

\* generate_follow_up_questions: what it leaves of the clients; AzureOpenAI
\* is made after the configuration checks and the token; nothing closes it
generate_follow_up_questions_clients(open, caller, outcome) ==
    IF outcome \in {"disabled", "token_raises"} THEN open
    ELSE open \cup {OpenAIClient(caller)}

MessagesOutcomes == {"token_raises", "list_raises", "ok"}

QuestionsOutcomes == {"disabled", "token_raises", "chat_raises", "ok"}

\* get_conversation_messages(conversation_id, user_token, limit)
get_conversation_messages_call(outcome) ==
    /\ agent_last.n < MaxAgentCalls
    /\ open_clients' = get_conversation_messages_clients(open_clients, Direct, outcome)
    /\ agent_last' = AgentCall("get_conversation_messages", outcome = "ok", <<>>,
                               IF outcome = "ok" THEN Len(thread_messages) ELSE 0)
    /\ UNCHANGED <<thread_runs, thread_messages>>
    /\ AgentFrame

\* generate_follow_up_questions(conversation_history, user_token): every
\* exception is caught and [] returned
generate_follow_up_questions(outcome) ==
    /\ agent_last.n < MaxAgentCalls
    /\ open_clients' = generate_follow_up_questions_clients(open_clients, Direct, outcome)
    /\ agent_last' = AgentCall("generate_follow_up_questions", TRUE, <<>>, 0)
    /\ UNCHANGED <<thread_runs, thread_messages>>
    /\ AgentFrame

\* start_conversation: token, client, threads.create (a new thread, not the
\* one modelled), welcome message; the client is closed in "finally"
start_conversation(outcome) ==
    /\ agent_last.n < MaxAgentCalls
    /\ open_clients' = IF outcome = "token_raises" THEN open_clients
                       ELSE (open_clients \cup {ProjectClient(Direct)}) \ {ProjectClient(Direct)}
    /\ agent_last' = AgentCall("start_conversation", outcome = "ok", <<>>, 0)
    /\ UNCHANGED <<thread_runs, thread_messages>>
    /\ AgentFrame

\* cancel_active_runs: lists the runs in the order "order" and cancels those
\* listed as queued, in_progress or requires_action; fail_at = k > 0: the
\* k-th cancel raises and the call raises; new: the status the service
\* gives a run it cancels
cancel_active_runs(token_ok, list_ok, order, fail_at, new) ==
    LET targets == SelectSeq(order, LAMBDA r : thread_runs[r] \in cancellable_statuses)
        raises == ~list_ok \/ fail_at > 0
        cancelled == IF ~list_ok THEN <<>>
                     ELSE IF fail_at > 0 THEN SubSeq(targets, 1, fail_at - 1)
                     ELSE targets
    IN /\ agent_last.n < MaxAgentCalls
       /\ fail_at <= Len(targets)
       /\ IF ~token_ok
          THEN /\ fail_at = 0 /\ list_ok
               /\ agent_last' = AgentCall("cancel_active_runs", FALSE, <<>>, 0)
               /\ UNCHANGED <<thread_runs, open_clients>>
          ELSE /\ thread_runs' = [r \in RunIds |->
                                    IF r \in Range(cancelled) THEN new[r] ELSE thread_runs[r]]
               /\ open_clients' = (open_clients \cup {ProjectClient(Direct)}) \ {ProjectClient(Direct)}
               /\ agent_last' = AgentCall("cancel_active_runs", ~raises, <<>>,
                                          IF raises THEN 0 ELSE Len(cancelled))
       /\ UNCHANGED thread_messages
       /\ AgentFrame

\* SpecAgent: up to MaxAgentCalls calls of AIFoundryService, one after the
\* other, on a thread that holds up to two runs
AgentRunStatuses == {NoRun, "in_progress", "cancelling", "completed"}

InitAgent ==
    /\ cosmos_service = FALSE
    /\ sessions_container = {}
    /\ messages_container = <<>>
    /\ in_memory_store = <<>>
    /\ clock = 0
    /\ every_call_failed = TRUE
    /\ last = Call("init", None, None, "none", "none", FALSE, None, NoConversation, <<>>, None)
    /\ thread_runs \in [RunIds -> AgentRunStatuses]
    /\ pc = "idle"
    /\ runs_list = [r \in RunIds |-> NoRun]
    /\ active_runs = <<>>
    /\ elapsed = 0
    /\ cancel_requests = {}
    /\ TokenIdle
    /\ TasksIdle
    /\ AgentIdle

NextAgent ==
    \/ \E messages \in ReplayInputs, token_ok \in BOOLEAN, fail_at \in 0..MaxReplay :
          replay_history(messages, token_ok, fail_at)
    \/ \E outcome \in {"token_raises", "create_raises", "ok"} : start_conversation(outcome)
    \/ \E token_ok, list_ok \in BOOLEAN, order \in Perms({r \in RunIds : thread_runs[r] # NoRun}),
          fail_at \in 0..Cardinality(RunIds), new \in [RunIds -> {"cancelling", "cancelled"}] :
          cancel_active_runs(token_ok, list_ok, order, fail_at, new)
    \/ \E outcome \in MessagesOutcomes : get_conversation_messages_call(outcome)
    \/ \E outcome \in QuestionsOutcomes : generate_follow_up_questions(outcome)

SpecAgent == InitAgent /\ [][NextAgent]_vars

\* --------------------------------------- AIFoundryService: send_message
\* A call of send_message is a coroutine; every await is a point where the
\* other call and the remote service can take steps. The locals of
\* _ensure_no_active_runs (pc, runs_list, active_runs, elapsed,
\* cancel_requests) are those of the call whose pc is "ensure"; the two
\* calls here go through _ensure_no_active_runs one at a time.
SendFrame ==
    /\ UNCHANGED <<store_vars, token_vars, task_vars>>
    /\ UNCHANGED agent_last

\* the call leaves through "except Exception: raise"; "finally" has closed
\* its AIProjectClient
SendRaised(c) ==
    /\ send_calls' = [send_calls EXCEPT ![c] = [@ EXCEPT !.pc = "raised"]]
    /\ open_clients' = open_clients \ {ProjectClient(c)}

\* variant: the call goes on to post without _ensure_no_active_runs
SendStartNoEnsure(c, token_ok) ==
    /\ send_calls[c].pc = "idle"
    /\ pc = "idle"
    /\ IF token_ok
       THEN /\ send_calls' = [send_calls EXCEPT ![c] =
                                 [SendIdle EXCEPT !.pc = "post", !.text = "Hi"]]
            /\ open_clients' = open_clients \cup {ProjectClient(c)}
       ELSE /\ send_calls' = [send_calls EXCEPT ![c] = [SendIdle EXCEPT !.pc = "raised"]]
            /\ UNCHANGED open_clients
    /\ UNCHANGED <<thread_runs, pc, runs_list, active_runs, elapsed, cancel_requests, thread_messages>>
    /\ SendFrame

\* _get_azure_ai_token and AIProjectClient(...); then the call enters
\* _ensure_no_active_runs
SendStart(c, token_ok) ==
    /\ send_calls[c].pc = "idle"
    /\ pc = "idle"
    /\ IF token_ok
       THEN /\ send_calls' = [send_calls EXCEPT ![c] = [SendIdle EXCEPT !.pc = "ensure", !.text = "Hi"]]
            /\ open_clients' = open_clients \cup {ProjectClient(c)}
            /\ pc' = "start"
       ELSE /\ send_calls' = [send_calls EXCEPT ![c] = [SendIdle EXCEPT !.pc = "raised"]]
            /\ UNCHANGED <<open_clients, pc>>
    /\ UNCHANGED <<thread_runs, runs_list, active_runs, elapsed, cancel_requests, thread_messages>>
    /\ SendFrame

\* client.agents.runs.list raises in _ensure_no_active_runs (first listing
\* or a poll): nothing catches it before send_message's handlers
SendEnsureRaises(c) ==
    /\ send_calls[c].pc = "ensure"
    /\ pc \in {"start", "poll"}
    /\ pc = "poll" => elapsed < max_wait_seconds * polls_per_second
    /\ SendRaised(c)
    /\ pc' = "idle"
    /\ runs_list' = [r \in RunIds |-> NoRun]
    /\ active_runs' = <<>>
    /\ elapsed' = 0
    /\ cancel_requests' = {}
    /\ UNCHANGED <<thread_runs, thread_messages>>
    /\ SendFrame

\* _ensure_no_active_runs has returned (quiet listing, or warning after the
\* wait ran out); the call keeps what its reconciler listed as active and
\* asked to cancel
SendEnsured(c) ==
    /\ send_calls[c].pc = "ensure"
    /\ pc \in {"returned", "timed_out"}
    /\ send_calls' = [send_calls EXCEPT ![c] =
                         [@ EXCEPT !.pc = "post",
                                   !.observed = not_terminal(runs_list),
                                   !.asked = cancel_requests,
                                   !.timed_out = (pc = "timed_out")]]
    /\ pc' = "idle"
    /\ runs_list' = [r \in RunIds |-> NoRun]
    /\ active_runs' = <<>>
    /\ elapsed' = 0
    /\ cancel_requests' = {}
    /\ UNCHANGED <<thread_runs, thread_messages, open_clients>>
    /\ SendFrame

\* client.agents.messages.create(role="user", content=message_text); the
\* service refuses it while a run of the thread is not terminal ("Can't add
\* messages to thread while a run is active"); ok: nothing else fails
SendPost(c, ok) ==
    /\ send_calls[c].pc = "post"
    /\ IF ok /\ not_terminal(thread_runs) = {}
       THEN /\ Len(thread_messages) < MaxThreadMessages
            /\ thread_messages' = Append(thread_messages, [role |-> "user", content |-> send_calls[c].text])
            /\ send_calls' = [send_calls EXCEPT ![c] =
                                 [@ EXCEPT !.pc = "run", !.posted_with = not_terminal(thread_runs)]]
            /\ UNCHANGED open_clients
       ELSE /\ send_calls' = [send_calls EXCEPT ![c] =
                                 [@ EXCEPT !.pc = "raised", !.posted_with = not_terminal(thread_runs)]]
            /\ open_clients' = open_clients \ {ProjectClient(c)}
            /\ UNCHANGED thread_messages
    /\ UNCHANGED <<thread_runs, pc, runs_list, active_runs, elapsed, cancel_requests>>
    /\ SendFrame

\* the run ids the thread has not used
FreeRuns == {r \in RunIds : thread_runs[r] = NoRun}

\* client.agents.runs.create_and_process: the run is created
SendCreateRun(c, ok) ==
    /\ send_calls[c].pc = "run"
    /\ IF ok
       THEN \E r \in FreeRuns :
               /\ thread_runs' = [thread_runs EXCEPT ![r] = "queued"]
               /\ send_calls' = [send_calls EXCEPT ![c] = [@ EXCEPT !.pc = "wait", !.run = r]]
               /\ UNCHANGED open_clients
       ELSE /\ SendRaised(c)
            /\ UNCHANGED thread_runs
    /\ UNCHANGED <<pc, runs_list, active_runs, elapsed, cancel_requests, thread_messages>>
    /\ SendFrame

\* client.agents.runs.create_and_process: it polls the run while its status
\* is queued, in_progress or requires_action, and then returns it
SendRunProcessed(c) ==
    /\ send_calls[c].pc = "wait"
    /\ thread_runs[send_calls[c].run] \notin cancellable_statuses
    /\ send_calls' = [send_calls EXCEPT ![c] = [@ EXCEPT !.pc = "list"]]
    /\ UNCHANGED <<thread_runs, pc, runs_list, active_runs, elapsed, cancel_requests>>
    /\ UNCHANGED <<thread_messages, open_clients>>
    /\ SendFrame

\* client.agents.messages.list and the extraction of the reply
SendListMessages(c, ok) ==
    /\ send_calls[c].pc = "list"
    /\ IF ok
       THEN /\ send_calls' = [send_calls EXCEPT ![c] = [@ EXCEPT !.pc = "followup"]]
            /\ UNCHANGED open_clients
       ELSE SendRaised(c)
    /\ UNCHANGED <<thread_runs, pc, runs_list, active_runs, elapsed, cancel_requests, thread_messages>>
    /\ SendFrame

\* follow-up questions: get_conversation_messages (its exceptions are
\* logged), then generate_follow_up_questions (which returns [] on any
\* exception)
SendFollowUp(c, messages_outcome, questions_outcome) ==
    /\ send_calls[c].pc = "followup"
    /\ open_clients' = generate_follow_up_questions_clients(
                           get_conversation_messages_clients(open_clients, c, messages_outcome),
                           c, questions_outcome)
    /\ send_calls' = [send_calls EXCEPT ![c] = [@ EXCEPT !.pc = "return"]]
    /\ UNCHANGED <<thread_runs, pc, runs_list, active_runs, elapsed, cancel_requests, thread_messages>>
    /\ SendFrame

\* return {...}; "finally" closes the AIProjectClient
SendReturn(c) ==
    /\ send_calls[c].pc = "return"
    /\ send_calls' = [send_calls EXCEPT ![c] = [@ EXCEPT !.pc = "done"]]
    /\ open_clients' = open_clients \ {ProjectClient(c)}
    /\ UNCHANGED <<thread_runs, pc, runs_list, active_runs, elapsed, cancel_requests, thread_messages>>
    /\ SendFrame

\* SpecSend: two calls of send_message on one thread, which may hold a run
\* left by an earlier turn
InitSend == InitAgent /\ thread_runs["run_2"] = NoRun

NextSend ==
    \/ \E c \in CallIds, token_ok \in BOOLEAN : SendStart(c, token_ok)
    \/ \E r \in RunIds : RunProgress(r)
    \/ EnsureList
    \/ \E accepted \in BOOLEAN : EnsureCancel(accepted)
    \/ EnsurePoll
    \/ EnsureTimeout
    \/ \E c \in CallIds : SendEnsureRaises(c)
    \/ \E c \in CallIds : SendEnsured(c)
    \/ \E c \in CallIds, ok \in BOOLEAN : SendPost(c, ok)
    \/ \E c \in CallIds, ok \in BOOLEAN : SendCreateRun(c, ok)
    \/ \E c \in CallIds : SendRunProcessed(c)
    \/ \E c \in CallIds, ok \in BOOLEAN : SendListMessages(c, ok)
    \/ \E c \in CallIds, mo \in MessagesOutcomes, qo \in QuestionsOutcomes : SendFollowUp(c, mo, qo)
    \/ \E c \in CallIds : SendReturn(c)

SpecSend == InitSend /\ [][NextSend]_vars

\* ------------------------------------------------------------- claims
OwnsDurable(u, id) == HasItem(sessions_container, id, u)

OwnsMem(u, id) ==
    mem_has(in_memory_store, id) /\ mem_lookup(in_memory_store, id).user_id = u

Owns(u, id) == OwnsDurable(u, id) \/ OwnsMem(u, id)

ActiveOwnedIds(u) ==
    {d.id : d \in {x \in sessions_container : x.userId = u /\ x.is_active}}
    \cup {c.id : c \in {x \in Range(in_memory_store) : x.user_id = u /\ x.is_active}}

OwnedCount(u) ==
    Cardinality({x \in sessions_container : x.userId = u})
    + Cardinality({x \in Range(in_memory_store) : x.user_id = u})

ListedIds == {last.summaries[i].id : i \in 1..Len(last.summaries)}

Stores == <<sessions_container, messages_container, in_memory_store>>

\* C1: a listing for user U with a limit of at least U's session count
\* contains every session of U that is not soft-deleted, and only sessions of U.
C1_ListHasEveryActiveSession ==
    (last.op = "get_user_conversations" /\ last.id >= OwnedCount(last.user_id))
        => /\ ActiveOwnedIds(last.user_id) \subseteq ListedIds
           /\ \A id \in ListedIds : Owns(last.user_id, id)

\* C2: the listing that directly follows a delete_conversation(s, U) that
\* returned True does not contain s.
C2_DeletedNotListed ==
    (last.op = "get_user_conversations" /\ last.after_delete # None)
        => last.after_delete \notin ListedIds

\* a listing right after a successful delete that still shows another session
C2_Witness ==
    /\ last.op = "get_user_conversations"
    /\ last.after_delete # None
    /\ ListedIds # {}

\* in the fallback path: a listing from the map right after a delete from the map
C2_WitnessFallback ==
    /\ last.op = "get_user_conversations"
    /\ last.after_delete \in MemIds
    /\ last.served_by = "memory"

\* C3 as claimed: get_conversation(s, U) right after delete_conversation(s, U)
\* returned True yields None.
C3_GetAfterDeleteIsNone ==
    (last.op = "get_conversation" /\ last.after_delete = last.id)
        => last.conv = NoConversation

\* the store get_conversation reads holds the session for this user
ReadStoreHolds(u, id) ==
    IF cosmos_service THEN OwnsDurable(u, id) ELSE OwnsMem(u, id)

\* C3 as amended: get_conversation(s, U) right after delete_conversation(s, U)
\* returned True does not consult is_active: when the store it reads holds s
\* and the read does not fail, it returns s, with is_active = False; in every
\* other case it returns None.
C3_GetAfterDeleteReturnsInactive ==
    (last.op = "get_conversation" /\ last.after_delete = last.id)
        => IF ~last.failed /\ ReadStoreHolds(last.user_id, last.id)
           THEN /\ last.conv # NoConversation
                /\ last.conv.id = last.id
                /\ last.conv.is_active = FALSE
           ELSE last.conv = NoConversation

C3_Witness ==
    /\ last.op = "get_conversation"
    /\ last.after_delete = last.id
    /\ last.conv # NoConversation
    /\ last.conv.is_active = FALSE

\* the message a step has appended to the Messages container
Appended == messages_container'[Len(messages_container')]

\* (C5) add_message stores a message only for a session that exists and is
\* owned by the caller in the store that takes the message; for any other
\* (id, caller) it returns None and changes no session and no message; every
\* stored message references an existing session.
C5_MessagesReferenceSessions ==
    /\ \A i \in 1..Len(messages_container) :
          \E d \in sessions_container : d.id = messages_container[i].sessionId
    /\ \A i \in 1..Len(in_memory_store) :
          \A k \in 1..Len(in_memory_store[i].messages) :
             in_memory_store[i].messages[k].sessionId = in_memory_store[i].id

C5_AddStep ==
    /\ Len(messages_container') > Len(messages_container)
          => /\ last'.op = "add_message"
             /\ Appended.sessionId = last'.id
             /\ OwnsDurable(last'.user_id, last'.id)
    /\ mem_message_total(in_memory_store') > mem_message_total(in_memory_store)
          => /\ last'.op = "add_message"
             /\ OwnsMem(last'.user_id, last'.id)
    /\ (last'.op = "add_message" /\ ~Owns(last'.user_id, last'.id))
          => /\ last'.ret = None
             /\ ~last'.ok
             /\ Stores' = Stores

\* C5: every stored message references an existing session, and every step
\* that stores one is an add_message by the owner of that session; an
\* add_message by anyone else returns None and changes nothing.
C5_AddMessageChecksOwner == []C5_MessagesReferenceSessions /\ [][C5_AddStep]_vars

\* add_message on a session of another user was refused
C5_Witness ==
    /\ last.op = "add_message"
    /\ last.ret = None
    /\ ~Owns(last.user_id, last.id)
    /\ \E v \in Users : v # last.user_id /\ Owns(v, last.id)

\* (C6) get_conversation(id, U) on a session owned by another user only
\* returns None and changes nothing, exactly as on an id no session has.
C6_GetStep ==
    (last'.op = "get_conversation" /\ ~Owns(last'.user_id, last'.id))
        => /\ last'.conv = NoConversation
           /\ ~last'.ok
           /\ Stores' = Stores

\* C6: every get_conversation on a session the caller does not own, whether
\* another user's or nobody's, returns None and changes nothing.
C6_ForeignLooksNotFound == [][C6_GetStep]_vars

\* a fetch of another user's session returned None
C6_Witness ==
    /\ last.op = "get_conversation"
    /\ last.conv = NoConversation
    /\ ~last.failed
    /\ ~Owns(last.user_id, last.id)
    /\ \E v \in Users : v # last.user_id /\ Owns(v, last.id)

\* what user v owns in the in-process map
MemView(v) == {c \in Range(in_memory_store) : c.user_id = v}

WriteOps == {"add_message", "delete_conversation", "update_message_feedback"}

\* (C7) a write issued on behalf of user U (add_message, delete_conversation,
\* update_message_feedback) changes no session and no message of a session
\* owned by another user; stated for the sessions of the in-process map.
C7_WriteStep ==
    last'.op \in WriteOps
        => \A v \in Users : v # last'.user_id => MemView(v)' = MemView(v)

\* C7: no write of the facade issued for user U changes what another user
\* owns in the in-process map.
C7_WritesCheckOwner == [][C7_WriteStep]_vars

\* C9: when a Cosmos call of get_user_conversations or get_conversation
\* raises, the call is answered from the in-process map; a session of the
\* caller stays reachable by get_conversation.
C9_FailedReadsServedFromMemory ==
    /\ (last.op = "get_user_conversations" /\ last.failed)
          => last.summaries \in
                mem_get_user_conversations(in_memory_store, last.user_id, last.id)
    /\ (last.op = "get_conversation" /\ last.failed)
          => /\ last.conv = mem_get_conversation(in_memory_store, last.id, last.user_id)
             /\ (Owns(last.user_id, last.id) => last.conv # NoConversation)

\* the messages add_message has stored for the session, in the order stored
AppendedTo(id) ==
    IF mem_has(in_memory_store, id) THEN mem_lookup(in_memory_store, id).messages
    ELSE SelectSeq(messages_container, LAMBDA m : m.sessionId = id)

\* C4: get_conversation_messages returns the messages appended to a session
\* in the order their appends succeeded, content, role and attachments as
\* passed in; stated for a session of the durable store read without error.
C4_MessagesInAppendOrder ==
    (/\ last.op = "get_conversation"
     /\ ~last.failed
     /\ cosmos_service
     /\ OwnsDurable(last.user_id, last.id))
        => get_conversation_messages(last.conv) = AppendedTo(last.id)

\* the in-process map holds one conversation, of user u, with a user and
\* then an assistant message
OneConversationTwoMessages(u) ==
    /\ Len(in_memory_store) = 1
    /\ in_memory_store[1].user_id = u
    /\ in_memory_store[1].is_active
    /\ Len(in_memory_store[1].messages) = 2
    /\ in_memory_store[1].messages[1].role = "user"
    /\ in_memory_store[1].messages[2].role = "assistant"

\* C8: with a store configured whose every call fails, create_conversation,
\* add_message (user), add_message (assistant), get_user_conversations
\* yields exactly one summary, with message_count = 2.
C8_FallbackListCountsTwo ==
    (/\ cosmos_service
     /\ every_call_failed
     /\ last.op = "get_user_conversations"
     /\ OneConversationTwoMessages(last.user_id))
        => /\ Len(last.summaries) = 1
           /\ last.summaries[1].message_count = 2

\* the first listing has been made and shows no run in an active status
ListedNoneActive ==
    /\ pc # "start"
    /\ \A r \in RunIds : runs_list[r] \notin cancellable_statuses

\* the first listing has been made and every run it shows is terminal
ListedAllTerminal ==
    /\ pc # "start"
    /\ \A r \in RunIds : runs_list[r] \in terminal_statuses \cup {NoRun}

\* returned straight after the first listing: no cancel request, no poll
ReturnedAtOnce ==
    /\ pc = "returned"
    /\ elapsed = 0
    /\ cancel_requests = {}

\* C10 (as stated): when the first listing shows no run with a status in
\* {queued, in_progress, requires_action}, _ensure_no_active_runs returns
\* after that listing without a cancel request and without a poll.
C10_NoActiveRunReturnsAtOnce == ListedNoneActive => ReturnedAtOnce

\* C10 (amended): when every run of the first listing has a terminal status
\* (completed, cancelled, failed, expired), _ensure_no_active_runs returns
\* after that listing without a cancel request and without a poll.
C10_AllTerminalReturnsAtOnce == ListedAllTerminal => ReturnedAtOnce

C10_Witness ==
    /\ ListedAllTerminal
    /\ ReturnedAtOnce
    /\ \E r \in RunIds : runs_list[r] \in terminal_statuses

MaxPolls == max_wait_seconds * polls_per_second

\* (C11) what one turn of the poll loop does
C11_PollStep ==
    (pc = "poll" /\ elapsed' = elapsed + 1)
        => /\ elapsed < MaxPolls
           /\ pc' = IF not_terminal(thread_runs) = {} THEN "returned" ELSE "poll"

\* (C11) the timeout branch is entered only from the poll loop with the
\* whole wait used up
C11_TimeoutStep ==
    (pc # "timed_out" /\ pc' = "timed_out") => (pc = "poll" /\ elapsed = MaxPolls)

\* C11: the poll that lists no non-terminal run returns, whichever poll of
\* the window it is, and so does not go on to the timeout branch; a run that
\* is cancelled by the k-th listing, k * 0.5 s < max_wait_seconds, ends the
\* call at elapsed = k * 0.5 s.
C11_ReturnsAtFirstQuietPoll == [][C11_PollStep /\ C11_TimeoutStep]_vars

\* the only listed active run was in_progress, was seen active by a poll
\* and cancelled by a later one inside the window
C11_Witness ==
    /\ pc = "returned"
    /\ elapsed > 1
    /\ elapsed < MaxPolls
    /\ \E r \in RunIds :
          /\ runs_list[r] = "in_progress"
          /\ thread_runs[r] = "cancelled"
          /\ not_terminal(runs_list) = {r}

\* the call has returned, at once, from the poll loop or on timeout
Returned == pc \in {"returned", "timed_out"}

\* C12: _ensure_no_active_runs terminates; it lists again at most
\* max_wait_seconds / 0.5 times; with a run still not terminal at the last
\* poll it returns normally through the timeout branch.
C12_TerminatesFailOpen ==
    /\ <>Returned
    /\ [](elapsed <= MaxPolls)
    /\ []((pc = "poll" /\ elapsed = MaxPolls) => <>(pc = "timed_out"))

\* returned on timeout with a run that is still not terminal
C12_Witness ==
    /\ pc = "timed_out"
    /\ elapsed = MaxPolls
    /\ not_terminal(thread_runs) # {}

\* the call of _get_azure_ai_token has ended
TokenDone == token_pc \in {"returned", "raised"}

\* the attempt fails without the identity provider rejecting the exchange
FailsTransiently(r) == r.kind = "raises"

\* C13: when attempts 1 and 2 fail transiently and attempt 3 yields an
\* access token, _get_azure_ai_token returns that token.
C13_ThirdAttemptTokenReturned ==
    (/\ TokenDone
     /\ FailsTransiently(responses[1])
     /\ FailsTransiently(responses[2])
     /\ responses[3].kind = "token")
        => /\ token_pc = "returned"
           /\ token_result = responses[3].what

\* (C14) the turn of the loop in which the exchange is rejected
C14_RejectStep ==
    (token_pc = "trying" /\ responses[attempt].kind = "rejected")
        => /\ token_pc' = "raised"
           /\ token_result' = AuthError(attempt)
           /\ attempt' = attempt
           /\ sleeps' = sleeps
           /\ msal_app' = msal_app

\* (C14) a call that has raised makes no further attempt
C14_RaisedStep ==
    (token_pc = "raised" /\ token_calls' = token_calls)
        => UNCHANGED <<attempt, sleeps, msal_app, token_result, token_pc>>

\* C14: a rejected exchange raises the auth error in that very attempt,
\* whichever it is: no further attempt, no sleep, no rebuilt client; the
\* call has slept and rebuilt once per earlier attempt only.
C14_RejectionRaisesAtOnce ==
    /\ [][C14_RejectStep /\ C14_RaisedStep]_vars
    /\ []((token_pc = "trying" /\ responses[attempt].kind = "rejected")
             => Len(sleeps) = attempt - 1)
    /\ []((token_pc = "raised" /\ responses[attempt].kind = "rejected")
             => (token_result = AuthError(attempt) /\ Len(sleeps) = attempt - 1))

\* rejected on the third attempt
C14_Witness ==
    /\ token_pc = "raised"
    /\ attempt = max_retries
    /\ responses[attempt].kind = "rejected"
    /\ token_result = AuthError(attempt)

\* C15: at most 3 attempts; a failed attempt that is no explicit rejection
\* is retried while attempts remain; after a third such failure the call
\* raises the error of the third attempt.
C15_TransientFailuresRetried ==
    /\ attempt <= max_retries
    /\ (token_pc = "raised" /\ attempt < max_retries)
          => responses[attempt].kind = "rejected"
    /\ (token_pc = "raised" /\ attempt = max_retries /\ FailsTransiently(responses[attempt]))
          => token_result = Raised(responses[attempt].what, attempt)

\* a step in which add_message has stored a message
AddedStep == TotalMsgs' = TotalMsgs + 1

\* the message that step has stored
NewMessage ==
    IF Len(messages_container') > Len(messages_container)
    THEN messages_container'[Len(messages_container')]
    ELSE LET c == mem_lookup(in_memory_store', last'.id)
         IN c.messages[Len(c.messages)]

\* the title of a session the user owns, in the given stores
TitleIn(sessions, store, u, id) ==
    IF HasItem(sessions, id, u) THEN read_item(sessions, id, u).title
    ELSE mem_lookup(store, id).title

TitleBefore == TitleIn(sessions_container, in_memory_store, last'.user_id, last'.id)
TitleAfter == TitleIn(sessions_container', in_memory_store', last'.user_id, last'.id)

\* the title a first user message gives a session
DerivedTitle(content) ==
    IF Len(content) > 50 THEN SubSeq(content, 1, 50) \o "..." ELSE content

\* C16: a stored message with role user on a session whose title is a
\* placeholder sets the title to the first 50 characters of the content,
\* with "..." when the content is longer; any other stored message leaves
\* the title as it is; in the durable store and in the in-process map.
C16_AddStep ==
    AddedStep =>
        TitleAfter =
            IF NewMessage.role = "user" /\ TitleBefore \in {"New Conversation", "New Chat"}
            THEN DerivedTitle(NewMessage.content)
            ELSE TitleBefore

C16_TitleFromFirstUserMessage == [][C16_AddStep]_vars

\* the session already holds a message with role user
HasUserMessage(id) ==
    \E i \in 1..Len(AppendedTo(id)) : AppendedTo(id)[i].role = "user"

\* C17: a user message stored on a session that already holds a user
\* message does not change the title, whatever the first one said.
C17_LaterStep ==
    (AddedStep /\ NewMessage.role = "user" /\ HasUserMessage(last'.id))
        => TitleAfter = TitleBefore

C17_TitleSetOnce == [][C17_LaterStep]_vars

\* the last_message of a session with these messages
ExpectedLastMessage(msgs) ==
    IF msgs = <<>> THEN None
    ELSE LET content == msgs[Len(msgs)].content
         IN IF Len(content) > 100 THEN SubSeq(content, 1, 100) ELSE content

\* C18: every summary of a listing counts the messages stored for the
\* session and shows the content of the one stored last, cut to 100
\* characters.
C18_SummaryCountsAndPreview ==
    last.op = "get_user_conversations"
        => \A i \in 1..Len(last.summaries) :
              LET summary == last.summaries[i]
              IN /\ summary.message_count = Len(AppendedTo(summary.id))
                 /\ summary.last_message = ExpectedLastMessage(AppendedTo(summary.id))

\* C19: the value a successful add_message returns is the id of a message
\* stored for that session, the one update_message_feedback looks up.
C19_ReturnsStoredMessageId ==
    (last.op = "add_message" /\ last.ok)
        => \E i \in 1..Len(AppendedTo(last.id)) : AppendedTo(last.id)[i].id = last.ret

\* a step of create_conversation
CreateStep == last'.op = "create_conversation" /\ clock' = clock

\* C20: create_conversation adds exactly one session and leaves every
\* session stored before as it was, in the durable store and in the
\* in-process map.
C20_CreateStep ==
    CreateStep =>
        /\ sessions_container \subseteq sessions_container'
        /\ Range(in_memory_store) \subseteq Range(in_memory_store')
        /\ TotalSessions' = TotalSessions + 1

C20_CreateKeepsStoredSessions == [][C20_CreateStep]_vars

\* the cancel loop of the call is over
CancelLoopDone == pc \in {"poll", "returned", "timed_out"}

\* C22: once the cancel loop is over, every run the first listing showed as
\* queued, in_progress or requires_action has been asked to cancel, whether
\* or not an earlier request failed; the call leaves the cancel loop for
\* the poll loop only.
C22_EveryActiveRunAskedToCancel ==
    /\ CancelLoopDone =>
          \A r \in RunIds : runs_list[r] \in cancellable_statuses => r \in cancel_requests
    /\ pc \in {"start", "cancel", "poll", "returned", "timed_out"}
    /\ (pc = "cancel" /\ cancel_requests # {}) => active_runs # <<>>

\* both listed runs were asked to cancel, neither request took effect, and
\* the call polls
C22_Witness ==
    /\ pc = "poll"
    /\ elapsed > 0
    /\ cancel_requests = RunIds
    /\ \A r \in RunIds : runs_list[r] \in cancellable_statuses
    /\ \A r \in RunIds : thread_runs[r] \in cancellable_statuses

\* (C30) a cancel request is issued in the cancel loop only, for the run at
\* its head, which has not been asked before
C30_RequestStep ==
    (cancel_requests' # cancel_requests)
        => /\ pc = "cancel"
           /\ Head(active_runs) \notin cancel_requests
           /\ cancel_requests' = cancel_requests \cup {Head(active_runs)}

\* (C30) the call returns from a poll only when no run is non-terminal
C30_ReturnStep ==
    (pc = "poll" /\ pc' = "returned") => not_terminal(thread_runs) = {}

\* C30: a run is asked to cancel at most once in a call, and only when the
\* first listing showed it as queued, in_progress or requires_action; a
\* run listed in another non-terminal status is not asked to cancel but is
\* waited for; the poll loop issues no cancel request.
C30_CancelOncePerCancellableRun ==
    /\ [][C30_RequestStep /\ C30_ReturnStep]_vars
    /\ [](\A r \in cancel_requests : runs_list[r] \in cancellable_statuses)
    /\ [](pc = "cancel" =>
            \A i, j \in 1..Len(active_runs) :
               /\ active_runs[i] \notin cancel_requests
               /\ (active_runs[i] = active_runs[j] => i = j))

\* a run listed as cancelling was not asked to cancel, the other run was,
\* and the call still polls for the first
C30_Witness ==
    /\ pc = "poll"
    /\ elapsed > 0
    /\ \E r, q \in RunIds :
          /\ runs_list[r] = "cancelling"
          /\ r \notin cancel_requests
          /\ thread_runs[r] = "cancelling"
          /\ q \in cancel_requests
          /\ thread_runs[q] \in terminal_statuses

\* (C26) one attempt of a call: k = attempt, sleeps counts in units of 0.5 s
C26_AttemptStep ==
    (token_pc = "trying")
        => IF FailsTransiently(responses[attempt]) /\ attempt < max_retries
           THEN /\ sleeps' = Append(sleeps, attempt)
                /\ msal_app' = msal_app + 1
                /\ attempt' = attempt + 1
                /\ token_pc' = "trying"
           ELSE /\ sleeps' = sleeps
                /\ msal_app' = msal_app

\* C26: after attempt k fails transiently with an attempt left, the call
\* sleeps 0.5 * k seconds once and rebuilds the exchange client once before
\* attempt k + 1; after the last attempt, a token or a rejection it neither
\* sleeps nor rebuilds.
C26_OneBackoffAndRebuildPerRetry == [][C26_AttemptStep]_vars

\* a step of update_message_feedback(last'.id, last'.ret, f)
FeedbackStep == last'.op = "update_message_feedback" /\ clock' = clock

\* the message the call names
IsTarget(m) == m.sessionId = last'.id /\ m.id = last'.ret

\* m2 is m1, or m1 with another feedback when m1 is the message named
SameButFeedback(m1, m2) ==
    IF IsTarget(m1) THEN \E f \in Feedbacks : m2 = [m1 EXCEPT !.feedback = f]
    ELSE m2 = m1

\* the messages of both stores, in one sequence
RECURSIVE mem_messages(_)
mem_messages(store) ==
    IF store = <<>> THEN <<>>
    ELSE Head(store).messages \o mem_messages(Tail(store))

AllMessages == messages_container \o mem_messages(in_memory_store)

\* C25: update_message_feedback changes at most the feedback field of the
\* one message with that id in that session; every other message, every
\* session document and every other field of a conversation stay as they
\* are; when no message with that id is stored for that session it
\* returns false and changes nothing.
C25_FeedbackStepFrame ==
    FeedbackStep =>
        /\ sessions_container' = sessions_container
        /\ Len(AllMessages') = Len(AllMessages)
        /\ Len(messages_container') = Len(messages_container)
        /\ \A i \in 1..Len(AllMessages) : SameButFeedback(AllMessages[i], AllMessages'[i])
        /\ Cardinality({i \in 1..Len(AllMessages) : AllMessages'[i] # AllMessages[i]}) <= 1
        /\ Len(in_memory_store') = Len(in_memory_store)
        /\ \A k \in 1..Len(in_memory_store) :
              in_memory_store'[k] = [in_memory_store[k] EXCEPT !.messages = in_memory_store'[k].messages]
        /\ (~\E i \in 1..Len(AllMessages) : IsTarget(AllMessages[i]))
              => (~last'.ok /\ Stores' = Stores)

C25_FeedbackChangesOneField == [][C25_FeedbackStepFrame]_vars

\* a session holds two messages; the second has feedback, the first none
C25_Witness ==
    /\ last.op = "update_message_feedback"
    /\ last.ok
    /\ Len(AllMessages) = 2
    /\ AllMessages[1].sessionId = AllMessages[2].sessionId
    /\ AllMessages[1].feedback = None
    /\ AllMessages[2].feedback = "positive"
    /\ AllMessages[2].id = last.ret

\* what a stored message is, but for its feedback
MessageCore(m) ==
    [id |-> m.id, sessionId |-> m.sessionId, role |-> m.role, content |-> m.content, createdAt |-> m.createdAt, attachments |-> m.attachments]

StoredMessages == {MessageCore(AllMessages[i]) : i \in 1..Len(AllMessages)}

\* C27: a stored message stays stored, with its id, sessionId, role,
\* content, createdAt and attachments, whatever the facade does next,
\* soft delete of its session included.
C27_MessagesAppendOnly == [][StoredMessages \subseteq StoredMessages']_vars

\* delete_conversation(id, SeqUser) has returned True
DeleteReturnedTrue == store_tasks["delete"].pc = "done" /\ store_tasks["delete"].ret = "True"

\* a step of get_user_conversations
ListStep ==
    /\ last'.op = "get_user_conversations"
    /\ UNCHANGED <<Stores, store_tasks>>

\* C28: once delete_conversation(s, U) has returned True on the durable
\* store, s is not active, whatever a concurrent add_message_to_session on
\* s does, and no later listing of U shows s.
C28_DeleteIsPermanent ==
    /\ [](DeleteReturnedTrue =>
            ~read_item(sessions_container, store_tasks["delete"].id, SeqUser).is_active)
    /\ [][(DeleteReturnedTrue /\ ListStep) => store_tasks["delete"].id \notin ListedIds']_vars

\* a step of replay_history
ReplayStep == agent_last'.op = "replay_history" /\ agent_last'.n = agent_last.n + 1

\* the turns with role user or assistant and a content that is not empty
RECURSIVE NonEmptyTurns(_)
NonEmptyTurns(messages) ==
    IF messages = <<>> THEN <<>>
    ELSE IF Head(messages).role \in {"user", "assistant"} /\ Head(messages).content # ""
    THEN <<Head(messages)>> \o NonEmptyTurns(Tail(messages))
    ELSE NonEmptyTurns(Tail(messages))

\* the turns with role user or assistant and a content that is not blank,
\* without the blanks around the content
RECURSIVE NonBlankTurns(_)
NonBlankTurns(messages) ==
    IF messages = <<>> THEN <<>>
    ELSE IF Head(messages).role \in {"user", "assistant"} /\ strip(Head(messages).content) # ""
    THEN <<[Head(messages) EXCEPT !.content = strip(@)]>> \o NonBlankTurns(Tail(messages))
    ELSE NonBlankTurns(Tail(messages))

\* (C23, as stated) a replay_history that returns has posted the turns with
\* role user or assistant and non-empty content, as they were given
C23_StatedStep ==
    (ReplayStep /\ agent_last'.ok)
        => /\ thread_messages' = thread_messages \o NonEmptyTurns(agent_last'.messages)
           /\ agent_last'.count = Len(NonEmptyTurns(agent_last'.messages))
           /\ thread_runs' = thread_runs

C23_PostsNonEmptyTurns == [][C23_StatedStep]_vars

\* (C23, amended) a replay_history that returns has posted the turns with
\* role user or assistant whose content is not blank, stripped of the
\* blanks around it, in their order, and reports their number; one that
\* raises has posted a prefix of them; neither creates a run
C23_AmendedStep ==
    ReplayStep =>
        LET turns == NonBlankTurns(agent_last'.messages)
        IN /\ agent_last'.ok =>
                 /\ thread_messages' = thread_messages \o turns
                 /\ agent_last'.count = Len(turns)
           /\ ~agent_last'.ok =>
                 \E k \in 0..Len(turns) : thread_messages' = thread_messages \o SubSeq(turns, 1, k)
           /\ thread_runs' = thread_runs

C23_PostsNonBlankTurnsStripped == [][C23_AmendedStep]_vars

\* a replay of a padded turn and a blank turn has posted the first, stripped
C23_Witness ==
    /\ agent_last.op = "replay_history"
    /\ agent_last.ok
    /\ agent_last.messages = <<[role |-> "user", content |-> " Hi "], [role |-> "assistant", content |-> " "]>>
    /\ agent_last.count = 1
    /\ thread_messages = <<[role |-> "user", content |-> "Hi"]>>

\* (C24) every client a call of AIFoundryService creates is closed before
\* the call returns or raises: a client that is open belongs to a call
\* that is still running
C24_NoClientOutlivesItsCall ==
    \A cl \in open_clients :
        /\ cl[1] \in CallIds
        /\ send_calls[cl[1]].pc \notin {"idle", "done", "raised"}

\* the call c issues messages.create for its user message
PostStep(c) == send_calls[c].pc = "post" /\ send_calls'[c].pc # "post"

\* the call c has its run created
CreateRunStep(c) == send_calls'[c].run # send_calls[c].run

\* (C21) in a call of send_message: the user message is posted only once
\* _ensure_no_active_runs has returned, the run is created only once the
\* message is posted, and the message is not posted while a run the
\* reconciler listed as active is still not terminal, unless its wait
\* timed out
C21_Step(c) ==
    /\ (send_calls'[c].pc = "post" /\ send_calls[c].pc # "post")
          => (send_calls[c].pc = "ensure" /\ pc \in {"returned", "timed_out"})
    /\ (send_calls'[c].pc = "run" /\ send_calls[c].pc # "run")
          => /\ PostStep(c)
             /\ thread_messages' = Append(thread_messages, [role |-> "user", content |-> "Hi"])
    /\ CreateRunStep(c)
          => /\ send_calls[c].pc = "run"
             /\ send_calls[c].run = NoRun
             /\ thread_runs[send_calls'[c].run] = NoRun
             /\ thread_runs'[send_calls'[c].run] = "queued"
    /\ PostStep(c)
          => \/ send_calls[c].timed_out
             \/ send_calls[c].observed \cap not_terminal(thread_runs) = {}

C21_EnsureThenPostThenRun == [][\A c \in CallIds : C21_Step(c)]_vars

\* a call whose reconciler listed an active run, did not time out, and
\* which has posted its message and had its run created
C21_Witness ==
    \E c \in CallIds :
        /\ send_calls[c].observed # {}
        /\ ~send_calls[c].timed_out
        /\ send_calls[c].pc = "wait"
        /\ send_calls[c].run \in RunIds
        /\ thread_messages # <<>>

\* (C29) of two concurrent calls of send_message, the reconciler of one
\* does not ask to cancel the run the other created, and neither issues
\* its post while the other's run is queued, in_progress or
\* requires_action
C29_Step(c, d) ==
    /\ send_calls[c].pc = "ensure"
          => send_calls[d].run \notin (cancel_requests' \ cancel_requests)
    /\ PostStep(c)
          => \/ send_calls[d].run = NoRun
             \/ thread_runs[send_calls[d].run] \notin cancellable_statuses

C29_CallsLeaveEachOthersRunAlone ==
    [][\A c \in CallIds, d \in CallIds : c # d => C29_Step(c, d)]_vars

====
